---- MODULE Spec2Model ----
(***************************************************************************)
(* A model of the ats-scrapers ingestion pipeline.                         *)
(*                                                                         *)
(*   SpecAshby  process_ashby_companies (ashby/process_ashby.py): the      *)
(*              per-file, per-job upsert loop over a folder of company     *)
(*              files, run up to MaxRuns times against one database        *)
(*              (SpecAshbyFair, SpecAshbyKill: with fairness, with a kill  *)
(*              and a restart).                                            *)
(*   SpecRace   get_or_create_company called by concurrent processes.      *)
(*   SpecGoogle google/export_to_csv.py and google/main.py over            *)
(*              google/parser.py; SpecLocations, SpecFind: the parser's    *)
(*              _format_locations and find_job_by_ats_id.                  *)
(*   SpecSlugs  the Greenhouse and Workable company-slug scripts.          *)
(*   SpecPost   post_playwright.py: selection, summary post and ledger.    *)
(*                                                                         *)
(* Strings the code inspects character by character (file stems) are       *)
(* sequences of one-character strings; opaque strings are TLA+ strings.    *)
(***************************************************************************)
EXTENDS Integers, Sequences, FiniteSets, TLC

VARIABLES
    \* ---- process_ashby_companies -------------------------------------
    files,                  \* the company files the glob yields, in its order
    run,                    \* which invocation of the pipeline is running
    pc,                     \* position in process_ashby_companies
    fileIdx,                \* index of the current json_file
    jobIdx,                 \* idx of the current ashby_job (1-based)
    company_name,           \* local of the file loop
    company_id,             \* local of the file loop
    companies,              \* the companies table (committed rows)
    jobs,                   \* the jobs table (committed rows)
    pending,                \* the session's uncommitted changes, in order
    total_jobs_processed,   \* the counter the summary prints
    faults,                 \* external calls that failed so far
    attempt,                \* what happened to the record in progress
    events,                 \* history of this run: one entry per resolved company / finished record
    snapshot,               \* history: the tables, fault count and events when run 1 ended
    \* ---- concurrent get_or_create_company ------------------------------
    rCalls,                 \* per process: the company names it resolves, in order
    rIdx,                   \* per process: index of the call in progress
    rPc,                    \* per process: position in get_or_create_company
    rResult,                \* per process: what its last finished call returned
    \* ---- google/export_to_csv.py and google/main.py -------------------
    gPath,                  \* "export" (export_to_csv.main) or "fetch" (main.run)
    gFiles,                 \* the raw payload files, in order
    gPc,                    \* position in the script
    gFileIdx,               \* index of the current raw_file
    gEntries,               \* history: the job rows of the payload just parsed
    gJobs,                  \* jobs: what parse_jobs returned for the current file
    gJobIdx,                \* index of the current job
    seen,                   \* the natural keys seen so far
    job_rows,               \* the rows aggregated so far
    genCalls,               \* history: the arguments of every generate_job_id call
    gCsv,                   \* the rows handed to write_jobs_csv
    gPrior,                 \* the rows of the CSV the previous run left
    gMerge,                 \* how write_jobs_csv classified the rows
    \* ---- google/parser.py: _format_locations --------------------------
    lRaw,                   \* the raw locations value
    lOut,                   \* the formatted locations
    lPc,                    \* "in" before the call, "out" after it
    \* ---- greenhouse/extract_companies_gh.py, workable/extract_companies_workable.py
    sVariant,               \* which of the two scripts runs
    sFile,                  \* the companies CSV on disk
    sLines,                 \* the lines of the URL list (gh.txt, workable.txt)
    sPc,                    \* position in main
    sRun,                   \* which invocation of the script is running
    sFound,                 \* greenhouse_companies / workable_companies
    sExisting,              \* existing_companies
    sAll,                   \* all_companies
    sNew,                   \* new_companies
    sPersisted,             \* history: the slugs the earlier runs wrote
    \* ---- google/parser.py: find_job_by_ats_id (test_google_parser.py) ---
    tPayload,               \* the decoded sample payload
    tId,                    \* the ats_id looked for
    tJobs,                  \* jobs: what parse_jobs returned
    tJob,                   \* job: what find_job_by_ats_id returned
    tPc,                    \* position in the test
    \* ---- post_playwright.py -------------------------------------------
    new_ai,                 \* the file new_ai.csv
    posted_jobs,            \* the file posted_jobs.json (POSTED_JOBS_FILE)
    pMode,                  \* "hourly" (hourly_update_post) or "daily" (daily_digest_post)
    pPc,                    \* position in the posting function
    pRun,                   \* which invocation of the script is running
    pJobs,                  \* jobs: what get_new_jobs_from_csv returned
    post_content,           \* what format_summary_post returned
    pPage,                  \* what the browser did with the post
    pPosted,                \* what post_to_x returned
    pBefore,                \* history: the ledger's URLs when the run started
    pSelected               \* history: the rows selected by the earlier runs that posted

ashbyVars == <<files, run, pc, fileIdx, jobIdx, company_name, company_id,
               companies, jobs, pending, total_jobs_processed, faults,
               attempt, events, snapshot>>

raceVars == <<rCalls, rIdx, rPc, rResult>>

googleVars == <<gPath, gFiles, gPc, gFileIdx, gEntries, gJobs, gJobIdx, seen,
                job_rows, genCalls, gCsv, gPrior, gMerge>>

locVars == <<lRaw, lOut, lPc>>

slugVars == <<sVariant, sFile, sLines, sPc, sRun, sFound, sExisting, sAll, sNew,
              sPersisted>>

findVars == <<tPayload, tId, tJobs, tJob, tPc>>

postVars == <<new_ai, posted_jobs, pMode, pPc, pRun, pJobs, post_content, pPage,
              pPosted, pBefore, pSelected>>

vars == <<ashbyVars, raceVars, googleVars, locVars, slugVars, findVars, postVars>>

(***************************************************************************)
(* Bounds of the model.                                                    *)
(***************************************************************************)
MaxRuns == 2
MaxFiles == 2
MaxJobs == 2
MaxFaults == 2
MaxCalls == 2
MaxRows == 2
MaxGFiles == 2
MaxLocs == 2
MaxLines == 2
MaxSlugRuns == 2
MaxCsvRows == 2
MaxPostRuns == 2

(***************************************************************************)
(* Values.                                                                 *)
(***************************************************************************)
\* Python's None in a string-valued field.
NULL == "NULL"
\* Python's None where an embedding is expected.
NoVec == <<>>
\* An exception leaving a call that returns an embedding.
RAISE == <<"raise">>
\* An exception leaving a call that returns a record.
ValueError == [error |-> "ValueError"]

SeqsUpTo(S, n) == UNION {[1..k -> S] : k \in 0..n}

(***************************************************************************)
(* ashby/process_ashby.py: tables and session.                             *)
(***************************************************************************)
\* gen_random_uuid() draws from these.
CompanyIds == {"c1", "c2"}

\* CompanyTable.name is unique=True, CompanyTable.id the primary key.
CompanyInsertOk_NoUnique(tbl, row) ==
    \A r \in tbl : r.id # row.id

CompanyInsertOk(tbl, row) ==
    /\ \A r \in tbl : r.id # row.id
    /\ \A r \in tbl : r.name # row.name

\* session.query(CompanyTable).filter_by(name=company_name).first()
FindCompany_Miss(tbl, name) == {}

FindCompany(tbl, name) == {r \in tbl : r.name = name}

\* JobTable.id is the primary key.
JobInsertOk(tbl, row) == \A r \in tbl : r.id # row.id

\* The lookup of lines 208-210 finding nothing.
FindJob_Miss(tbl, id) == {}

\* session.query(JobTable).filter_by(id=job_dict["id"]).first()
FindJob(tbl, id) == {r \in tbl : r.id = id}

RECURSIVE FlushOk(_, _)
\* Whether the database accepts the session's changes, applied in order.
FlushOk(tbl, pend) ==
    IF pend = <<>> THEN TRUE
    ELSE LET op == Head(pend) IN
         IF op.op = "insert"
         THEN JobInsertOk(tbl, op.row) /\ FlushOk(tbl \cup {op.row}, Tail(pend))
         ELSE FlushOk({r \in tbl : r.id # op.row.id} \cup {op.row}, Tail(pend))

\* An UPDATE that leaves a column as it was when the new value is None.
Patch(old, new) ==
    [new EXCEPT !.description     = IF @ = NULL THEN old.description ELSE @,
                !.embedding       = IF @ = NoVec THEN old.embedding ELSE @,
                !.title_embedding = IF @ = NoVec THEN old.title_embedding ELSE @]

RECURSIVE Flush_Patch(_, _)
\* Flush with field-level patching in the place of the full replace.
Flush_Patch(tbl, pend) ==
    IF pend = <<>> THEN tbl
    ELSE LET op == Head(pend) IN
         IF op.op = "insert"
         THEN Flush_Patch(tbl \cup {op.row}, Tail(pend))
         ELSE Flush_Patch({r \in tbl : r.id # op.row.id}
                          \cup {Patch(r, op.row) : r \in {x \in tbl : x.id = op.row.id}},
                          Tail(pend))

RECURSIVE Flush_KeepOld(_, _)
\* Flush with an UPDATE that adds the new row and leaves the old one.
Flush_KeepOld(tbl, pend) ==
    IF pend = <<>> THEN tbl
    ELSE Flush_KeepOld(tbl \cup {Head(pend).row}, Tail(pend))

RECURSIVE Flush(_, _)
\* The table after the session's changes: an INSERT adds the row, an UPDATE
\* replaces every column of the row with that id.
Flush(tbl, pend) ==
    IF pend = <<>> THEN tbl
    ELSE LET op == Head(pend) IN
         IF op.op = "insert"
         THEN Flush(tbl \cup {op.row}, Tail(pend))
         ELSE Flush({r \in tbl : r.id # op.row.id} \cup {op.row}, Tail(pend))

(***************************************************************************)
(* ashby/process_ashby.py: pure helpers.                                   *)
(***************************************************************************)
Upper(c) ==
    CASE c = "a" -> "A"
      [] c = "b" -> "B"
      [] c = "c" -> "C"
      [] OTHER   -> c

\* str.replace(old, new) for one-character old and new.
Replace(s, old, new) == [i \in 1..Len(s) |-> IF s[i] = old THEN new ELSE s[i]]

\* company_name from json_file.stem (lines 156-161).
CompanyNameOf(stem) ==
    LET n == Replace(Replace(stem, "-", " "), "_", " ")
    IN  IF n # <<>> THEN <<Upper(n[1])>> \o Tail(n) ELSE n

\* uuid.UUID(hex): the strings it accepts, and the UUID each denotes (case
\* does not matter).
UUIDValid(s) == s \in {"u1", "U1", "u2", "u3", "u4", "u5"}

UUIDOf(s) ==
    CASE s \in {"u1", "U1"} -> 1
      [] s = "u2" -> 2
      [] s = "u3" -> 3
      [] s = "u4" -> 4
      [] s = "u5" -> 5

\* generate_embedding with a swallowed failure turned into a raised one.
generate_embedding_Raises(text, ok) ==
    IF ok THEN <<"vec", text>> ELSE RAISE

\* generate_embedding: the vector as text, or None when the call fails.
generate_embedding(text, ok) ==
    IF ok THEN <<"vec", text>> ELSE NoVec

\* title_location_text (line 190)
TitleLocationText(j) == j.title \o "; " \o j.location

\* convert_ashby_to_database_job with its two embedding arguments swapped.
convert_ashby_to_database_job_Swapped(j, cname, cid, demb, temb) ==
    IF ~UUIDValid(j.id) THEN ValueError
    ELSE [id              |-> UUIDOf(j.id),
          title           |-> j.title,
          location        |-> j.location,
          company         |-> cname,
          description     |-> j.description_plain,
          source          |-> "ashby",
          company_id      |-> cid,
          embedding       |-> temb,
          title_embedding |-> demb]

\* convert_ashby_to_database_job followed by model_dump: ValueError when
\* UUID() rejects the id.
convert_ashby_to_database_job(j, cname, cid, demb, temb) ==
    IF ~UUIDValid(j.id) THEN ValueError
    ELSE [id              |-> UUIDOf(j.id),
          title           |-> j.title,
          location        |-> j.location,
          company         |-> cname,
          description     |-> j.description_plain,
          source          |-> "ashby",
          company_id      |-> cid,
          embedding       |-> demb,
          title_embedding |-> temb]

(***************************************************************************)
(* Inputs: the folder of company files.                                    *)
(***************************************************************************)
AshbyJob(id, title, desc) ==
    [id |-> id, title |-> title, location |-> "l1", description_plain |-> desc]

JobShapes ==
    { AshbyJob("u1", "t1", "d1"), AshbyJob("U1", "t2", NULL),
      AshbyJob("u2", "t1", NULL), AshbyJob("zz", "t1", NULL) }

Stems == { <<"a", "-", "b">>, <<"a", "_", "b">>, <<"c">> }

\* kind: "ok", "badjson" (json.load raises) or "badshape" (AshbyApiResponse
\* rejects the document).
CompanyFile(stem, kind, js) == [stem |-> stem, kind |-> kind, jobs |-> js]

\* One file with up to MaxJobs jobs.
OneFilePayloads ==
    { <<CompanyFile(<<"a", "-", "b">>, "ok", js)>> : js \in SeqsUpTo(JobShapes, MaxJobs) }

FileShapes ==
    { CompanyFile(s, "ok", <<AshbyJob("u1", "t1", "d1")>>) : s \in Stems }
    \cup { CompanyFile(<<"c">>, "ok", js) : js \in { <<>>, <<AshbyJob("u2", "t1", NULL)>> } }
    \cup { CompanyFile(<<"c">>, k, <<>>) : k \in {"badjson", "badshape"} }

\* Up to MaxFiles files of distinct names.
ManyFilePayloads ==
    { fs \in SeqsUpTo(FileShapes, MaxFiles) :
        /\ Len(fs) >= 2
        /\ \A i, k \in 1..Len(fs) : i # k => fs[i].stem # fs[k].stem }

\* A batch of five drafts.
Batch5 ==
    << CompanyFile(<<"c">>, "ok",
         << AshbyJob("u1", "t1", NULL), AshbyJob("u2", "t1", NULL),
            AshbyJob("u3", "t1", NULL), AshbyJob("u4", "t1", NULL),
            AshbyJob("u5", "t1", NULL) >>) >>

\* The folders: one file, several files, the batch of five, no file at all.
AshbyPayloads == OneFilePayloads \cup ManyFilePayloads \cup {Batch5} \cup {<<>>}

(***************************************************************************)
(* process_ashby_companies.                                                *)
(***************************************************************************)
NoAttempt == [dOk |-> TRUE, tOk |-> TRUE, cause |-> "none"]

\* How many of the run's finished records ended with one of these outcomes.
CountOutcome(evs, outcomes) ==
    Cardinality({i \in 1..Len(evs) : evs[i].kind = "job" /\ evs[i].outcome \in outcomes})

NoSnapshot == [jobs |-> {}, companies |-> {}, faults |-> 0, inserted |-> 0,
               committed |-> 0, failed |-> 0]

\* The parts of the system a specification does not exercise stay idle.
AshbyIdle ==
    /\ files = <<>>
    /\ run = 1
    /\ pc = "idle"
    /\ fileIdx = 1
    /\ jobIdx = 1
    /\ company_name = <<>>
    /\ company_id = NULL
    /\ jobs = {}
    /\ pending = <<>>
    /\ total_jobs_processed = 0
    /\ faults = 0
    /\ attempt = NoAttempt
    /\ events = <<>>
    /\ snapshot = NoSnapshot

RaceIdle ==
    /\ rCalls = <<>>
    /\ rIdx = <<>>
    /\ rPc = <<>>
    /\ rResult = <<>>

GoogleIdle ==
    /\ gPath = "none"
    /\ gFiles = <<>>
    /\ gPc = "idle"
    /\ gFileIdx = 1
    /\ gEntries = <<>>
    /\ gJobs = <<>>
    /\ gJobIdx = 1
    /\ seen = {}
    /\ job_rows = <<>>
    /\ genCalls = <<>>
    /\ gCsv = <<>>
    /\ gPrior = <<>>
    /\ gMerge = [toInsert |-> {}, toUpdate |-> {}, unchanged |-> {}]

LocIdle ==
    /\ lRaw = <<>>
    /\ lOut = <<>>
    /\ lPc = "idle"

SlugIdle ==
    /\ sVariant = "none"
    /\ sFile = [exists |-> FALSE, rows |-> <<>>]
    /\ sLines = <<>>
    /\ sPc = "idle"
    /\ sRun = 1
    /\ sFound = {}
    /\ sExisting = {}
    /\ sAll = {}
    /\ sNew = {}
    /\ sPersisted = {}

FindIdle ==
    /\ tPayload = <<>>
    /\ tId = <<>>
    /\ tJobs = <<>>
    /\ tJob = <<>>
    /\ tPc = "idle"

PostIdle ==
    /\ new_ai = [exists |-> FALSE, rows |-> <<>>]
    /\ posted_jobs = [exists |-> FALSE, valid |-> TRUE, posted_urls |-> {}]
    /\ pMode = "none"
    /\ pPc = "idle"
    /\ pRun = 1
    /\ pJobs = <<>>
    /\ post_content = [is_daily |-> FALSE, count |-> 0, items |-> <<>>]
    /\ pPage = "none"
    /\ pPosted = FALSE
    /\ pBefore = {}
    /\ pSelected = <<>>

\* pc = "nofolder": companies_path.exists() is false (line 146).
AshbyInit ==
    /\ files \in AshbyPayloads
    /\ run = 1
    /\ pc \in (IF files = <<>> THEN {"file", "nofolder"} ELSE {"file"})
    /\ fileIdx = 1
    /\ jobIdx = 1
    /\ company_name = <<>>
    /\ company_id = NULL
    /\ companies = {}
    /\ jobs = {}
    /\ pending = <<>>
    /\ total_jobs_processed = 0
    /\ faults = 0
    /\ attempt = NoAttempt
    /\ events = <<>>
    /\ snapshot = NoSnapshot

CurFile == files[fileIdx]
CurJob == CurFile.jobs[jobIdx]

\* A failing file that ends the loop over the files.
FileFails_Aborts ==
    /\ fileIdx' = Len(files) + 1
    /\ pc' = "file"
    /\ UNCHANGED <<jobIdx, jobs, pending, total_jobs_processed, attempt>>

\* Leaving the file's try block through one of its except clauses (230-233).
FileFails ==
    /\ fileIdx' = fileIdx + 1
    /\ pc' = "file"
    /\ UNCHANGED <<jobIdx, jobs, pending, total_jobs_processed, attempt>>

\* get_or_create_company without its lookup's result. session.commit()
\* (line 80) commits the whole session: the new company row and every
\* change the session still holds.
get_or_create_company_NoLookup(name) ==
    \E id \in CompanyIds :
      /\ \A r \in companies : r.id # id
      /\ \E ok \in BOOLEAN :
           /\ (~ok) => faults < MaxFaults
           /\ faults' = IF ok THEN faults ELSE faults + 1
           /\ IF ok /\ CompanyInsertOk(companies, [id |-> id, name |-> name])
                 /\ FlushOk(jobs, pending)
              THEN /\ companies' = companies \cup {[id |-> id, name |-> name]}
                   /\ jobs' = Flush(jobs, pending)
                   /\ pending' = <<>>
                   /\ company_id' = id
                   /\ events' = Append(events, [kind |-> "company", run |-> run,
                                                file |-> fileIdx,
                                                name |-> name, id |-> id])
                   /\ pc' = "load"
                   /\ UNCHANGED <<fileIdx, jobIdx, total_jobs_processed, attempt>>
              ELSE /\ UNCHANGED <<companies, company_id, events>>
                   /\ FileFails

\* get_or_create_company replacing the row it finds by a new one.
get_or_create_company_Renew(name) ==
    LET found == FindCompany(companies, name) IN
    IF found # {}
    THEN \E id \in CompanyIds :
           /\ \A r \in companies : r.id # id
           /\ companies' = (companies \ found) \cup {[id |-> id, name |-> name]}
           /\ company_id' = id
           /\ events' = Append(events, [kind |-> "company", run |-> run,
                                        file |-> fileIdx,
                                        name |-> name, id |-> id])
           /\ pc' = "load"
           /\ UNCHANGED <<faults, fileIdx, jobIdx, jobs, pending,
                          total_jobs_processed, attempt>>
    ELSE get_or_create_company_NoLookup(name)

\* get_or_create_company (72-81): look the name up; when absent add a row
\* and commit it. A failing commit raises into the file's except clause.
get_or_create_company(name) ==
    LET found == FindCompany(companies, name) IN
    IF found # {}
    THEN \E r \in found :
           /\ company_id' = r.id
           /\ events' = Append(events, [kind |-> "company", run |-> run,
                                        file |-> fileIdx,
                                        name |-> name, id |-> r.id])
           /\ pc' = "load"
           /\ UNCHANGED <<companies, faults, fileIdx, jobIdx, jobs, pending,
                          total_jobs_processed, attempt>>
    ELSE get_or_create_company_NoLookup(name)

\* Lines 153-166: the next file, its company name, its company.
ResolveCompany ==
    /\ pc = "file"
    /\ fileIdx <= Len(files)
    /\ company_name' = CompanyNameOf(CurFile.stem)
    /\ get_or_create_company(CompanyNameOf(CurFile.stem))
    /\ UNCHANGED <<files, run, snapshot>>
    /\ UNCHANGED <<raceVars, googleVars, locVars, slugVars, findVars, postVars>>

\* Lines 168-176: json.load and AshbyApiResponse(**company_data).
LoadFile ==
    /\ pc = "load"
    /\ IF CurFile.kind = "ok"
       THEN /\ pc' = "job"
            /\ jobIdx' = 1
            /\ UNCHANGED <<fileIdx, jobs, pending, total_jobs_processed, attempt>>
       ELSE FileFails
    /\ UNCHANGED <<files, run, company_name, company_id, companies, faults,
                   events, snapshot>>
    /\ UNCHANGED <<raceVars, googleVars, locVars, slugVars, findVars, postVars>>

\* Lines 204-220 with a lookup that never finds the row.
StageWrite_AlwaysInsert(row) == Append(pending, [op |-> "insert", row |-> row])

\* Lines 204-220: update the existing row, or add a new one, in the session.
StageWrite(row) ==
    IF FindJob(Flush(jobs, pending), row.id) # {}
    THEN Append(pending, [op |-> "update", row |-> row])
    ELSE Append(pending, [op |-> "insert", row |-> row])

\* Lines 181-220: embeddings, conversion, lookup, and the change staged in
\* the session. dOk, tOk, qOk: whether the two embedding calls and the
\* lookup query succeed.
JobBody ==
    /\ pc = "job"
    /\ jobIdx <= Len(CurFile.jobs)
    /\ \E dOk, tOk, qOk \in BOOLEAN :
         LET j    == CurJob
             demb == IF j.description_plain # NULL
                     THEN generate_embedding(j.description_plain, dOk)
                     ELSE NoVec
             temb == generate_embedding(TitleLocationText(j), tOk)
             row  == convert_ashby_to_database_job(j, company_name, company_id,
                                                   demb, temb)
             nf   == (IF dOk THEN 0 ELSE 1) + (IF tOk THEN 0 ELSE 1)
                     + (IF qOk THEN 0 ELSE 1)
         IN  /\ (j.description_plain = NULL) => dOk
             /\ (demb = RAISE \/ temb = RAISE \/ row = ValueError) => qOk
             /\ (demb = RAISE) => tOk
             /\ faults + nf <= MaxFaults
             /\ faults' = faults + nf
             /\ IF demb = RAISE \/ temb = RAISE
                THEN /\ attempt' = [dOk |-> dOk, tOk |-> tOk, cause |-> "embedding"]
                     /\ pc' = "except"
                     /\ UNCHANGED pending
                ELSE IF row = ValueError
                THEN /\ attempt' = [dOk |-> dOk, tOk |-> tOk, cause |-> "convert"]
                     /\ pc' = "except"
                     /\ UNCHANGED pending
                ELSE IF ~qOk
                THEN /\ attempt' = [dOk |-> dOk, tOk |-> tOk, cause |-> "lookup"]
                     /\ pc' = "except"
                     /\ UNCHANGED pending
                ELSE /\ attempt' = [dOk |-> dOk, tOk |-> tOk, cause |-> "none"]
                     /\ pending' = StageWrite(row)
                     /\ pc' = "commit"
    /\ UNCHANGED <<files, run, fileIdx, jobIdx, company_name, company_id,
                   companies, jobs, total_jobs_processed, events, snapshot>>
    /\ UNCHANGED <<raceVars, googleVars, locVars, slugVars, findVars, postVars>>

\* What the finished record adds to the history.
JobEvent(outcome) ==
    [kind |-> "job", run |-> run, file |-> fileIdx, idx |-> jobIdx,
     outcome |-> outcome, dOk |-> attempt.dOk, tOk |-> attempt.tOk,
     cause |-> attempt.cause]

\* Lines 222-223: session.commit() and the counter.
JobCommit ==
    /\ pc = "commit"
    /\ \E ok \in BOOLEAN :
         /\ (~ok) => faults < MaxFaults
         /\ IF ok /\ FlushOk(jobs, pending)
            THEN /\ jobs' = Flush(jobs, pending)
                 /\ pending' = <<>>
                 /\ total_jobs_processed' = total_jobs_processed + 1
                 /\ events' = Append(events, JobEvent(pending[Len(pending)].op))
                 /\ attempt' = NoAttempt
                 /\ jobIdx' = jobIdx + 1
                 /\ pc' = "job"
                 /\ UNCHANGED faults
            ELSE /\ attempt' = [attempt EXCEPT !.cause = "commit"]
                 /\ faults' = IF ok THEN faults ELSE faults + 1
                 /\ pc' = "except"
                 /\ UNCHANGED <<jobs, pending, total_jobs_processed, events, jobIdx>>
    /\ UNCHANGED <<files, run, fileIdx, company_name, company_id, companies,
                   snapshot>>
    /\ UNCHANGED <<raceVars, googleVars, locVars, slugVars, findVars, postVars>>

\* The except clause without its rollback.
Rollback_Skipped(pend) == pend

\* session.rollback(): the session's uncommitted changes are discarded.
Rollback(pend) == <<>>

\* The except clause leaving the session as it is.
JobRollback_Keeps ==
    /\ pc = "except"
    /\ events' = Append(events, JobEvent("failed"))
    /\ attempt' = NoAttempt
    /\ jobIdx' = jobIdx + 1
    /\ pc' = "job"
    /\ UNCHANGED <<files, run, fileIdx, company_name, company_id, companies,
                   jobs, pending, total_jobs_processed, faults, snapshot>>
    /\ UNCHANGED <<raceVars, googleVars, locVars, slugVars, findVars, postVars>>

\* The except clause with the counter incremented in it.
JobRollback_Counted ==
    /\ pc = "except"
    /\ pending' = Rollback(pending)
    /\ events' = Append(events, JobEvent("failed"))
    /\ attempt' = NoAttempt
    /\ jobIdx' = jobIdx + 1
    /\ pc' = "job"
    /\ total_jobs_processed' = total_jobs_processed + 1
    /\ UNCHANGED <<files, run, fileIdx, company_name, company_id, companies,
                   jobs, faults, snapshot>>
    /\ UNCHANGED <<raceVars, googleVars, locVars, slugVars, findVars, postVars>>

\* Lines 225-228: the record's except clause.
JobRollback ==
    /\ pc = "except"
    /\ pending' = Rollback(pending)
    /\ events' = Append(events, JobEvent("failed"))
    /\ attempt' = NoAttempt
    /\ jobIdx' = jobIdx + 1
    /\ pc' = "job"
    /\ UNCHANGED <<files, run, fileIdx, company_name, company_id, companies,
                   jobs, total_jobs_processed, faults, snapshot>>
    /\ UNCHANGED <<raceVars, googleVars, locVars, slugVars, findVars, postVars>>

\* Line 179: the job loop is exhausted; the file loop goes on.
NextFile ==
    /\ pc = "job"
    /\ jobIdx > Len(CurFile.jobs)
    /\ fileIdx' = fileIdx + 1
    /\ pc' = "file"
    /\ UNCHANGED <<files, run, jobIdx, company_name, company_id, companies,
                   jobs, pending, total_jobs_processed, faults, attempt,
                   events, snapshot>>
    /\ UNCHANGED <<raceVars, googleVars, locVars, slugVars, findVars, postVars>>

\* Lines 146-148: the folder does not exist; the function prints an error
\* and returns.
FolderMissing ==
    /\ pc = "nofolder"
    /\ pc' = "returned"
    /\ UNCHANGED <<files, run, fileIdx, jobIdx, company_name, company_id,
                   companies, jobs, pending, total_jobs_processed, faults,
                   attempt, events, snapshot>>
    /\ UNCHANGED <<raceVars, googleVars, locVars, slugVars, findVars, postVars>>

\* Line 237: what the summary line reports.
SummaryLine == [saved |-> total_jobs_processed]

\* Lines 235-237: session.close() and the summary line.
Summary ==
    /\ pc = "file"
    /\ fileIdx > Len(files)
    /\ pc' = "done"
    /\ pending' = <<>>
    /\ snapshot' = IF run = 1
                   THEN [jobs |-> jobs, companies |-> companies, faults |-> faults,
                         inserted  |-> CountOutcome(events, {"insert"}),
                         committed |-> CountOutcome(events, {"insert", "update"}),
                         failed    |-> CountOutcome(events, {"failed"})]
                   ELSE snapshot
    /\ UNCHANGED <<files, run, fileIdx, jobIdx, company_name, company_id,
                   companies, jobs, total_jobs_processed, faults, attempt,
                   events>>
    /\ UNCHANGED <<raceVars, googleVars, locVars, slugVars, findVars, postVars>>

\* The pipeline is started again on the same folder and database.
NextRun ==
    /\ pc = "done"
    /\ run < MaxRuns
    /\ run' = run + 1
    /\ pc' = "file"
    /\ fileIdx' = 1
    /\ jobIdx' = 1
    /\ company_name' = <<>>
    /\ company_id' = NULL
    /\ total_jobs_processed' = 0
    /\ events' = <<>>
    /\ UNCHANGED <<files, companies, jobs, pending, faults, attempt, snapshot>>
    /\ UNCHANGED <<raceVars, googleVars, locVars, slugVars, findVars, postVars>>

AshbyNext ==
    \/ FolderMissing
    \/ ResolveCompany
    \/ LoadFile
    \/ JobBody
    \/ JobCommit
    \/ JobRollback
    \/ NextFile
    \/ Summary
    \/ NextRun

InitAshby ==
    AshbyInit /\ RaceIdle /\ GoogleIdle /\ LocIdle /\ SlugIdle
    /\ FindIdle /\ PostIdle

SpecAshby == InitAshby /\ [][AshbyNext]_vars

\* The function runs to its end: no step of it waits for anything but the
\* calls it makes, which return or raise.
SpecAshbyFair == InitAshby /\ [][AshbyNext]_vars /\ WF_vars(AshbyNext)

(***************************************************************************)
(* Properties of process_ashby_companies.                                  *)
(***************************************************************************)
JobEvents == {i \in 1..Len(events) : events[i].kind = "job"}
CompanyEvents == {i \in 1..Len(events) : events[i].kind = "company"}
Committed == {"insert", "update"}
SecondRunDone == run = 2 /\ pc = "done"

AllRecordsHandled ==
    \A f \in 1..Len(files) :
        LET loaded  == /\ files[f].kind = "ok"
                       /\ \E i \in CompanyEvents : events[i].file = f
            handled == {events[i].idx : i \in {k \in JobEvents : events[k].file = f}}
        IN  /\ (loaded /\ (f < fileIdx \/ pc = "done"))
                  => handled = 1..Len(files[f].jobs)
            /\ (f = fileIdx /\ pc \in {"job", "commit", "except"})
                  => handled = 1..(jobIdx - 1)

\* C2: when a record fails (conversion, lookup or commit), its except clause
\* discards the session's changes, so nothing of it becomes durable, the
\* committed rows stay as they were, and the loop goes on with the next
\* record; no uncommitted change is left between records, and every record
\* of a loaded file is handled.
C2_FailureIsolated ==
    /\ [][(pc = "except") =>
            /\ pending' = <<>>
            /\ jobs' = jobs
            /\ companies' = companies
            /\ pc' = "job"
            /\ jobIdx' = jobIdx + 1
            /\ fileIdx' = fileIdx]_vars
    /\ [][(pc' = "except") => jobs' = jobs]_vars
    /\ [](pc \in {"file", "load", "job", "done"} => pending = <<>>)
    /\ []AllRecordsHandled

\* A record failed between two records that were committed, and the rows
\* hold the two and not the failed one.
C2_Witness ==
    /\ files = Batch5
    /\ Len(events) >= 4
    /\ events[2].outcome = "insert"
    /\ events[3].outcome = "failed"
    /\ events[4].outcome = "insert"
    /\ {r.id : r \in jobs} = {1, 3}

\* C3: a failing embedding call never makes the record fail, and the record
\* is committed with a null embedding in the place of the call that failed.
C3_EmbeddingAbsorbed ==
    /\ [][(pc' = "except") => attempt'.cause \in {"convert", "lookup", "commit"}]_vars
    /\ [][(pc = "job" /\ pc' \in {"commit", "except"} /\ UUIDValid(CurJob.id)
             /\ faults' = faults + (IF attempt'.dOk THEN 0 ELSE 1)
                                 + (IF attempt'.tOk THEN 0 ELSE 1))
            => pc' = "commit"]_vars
    /\ [][(pc = "commit" /\ pc' = "job") =>
            \E r \in jobs' :
                /\ r.id = UUIDOf(CurJob.id)
                /\ r.title = CurJob.title
                /\ r.embedding = (IF attempt.dOk /\ CurJob.description_plain # NULL
                                  THEN <<"vec", CurJob.description_plain>>
                                  ELSE NoVec)
                /\ r.title_embedding = (IF attempt.tOk
                                        THEN <<"vec", TitleLocationText(CurJob)>>
                                        ELSE NoVec)]_vars

\* A record whose description embedding failed is stored, without it.
C3_Witness ==
    \E i \in JobEvents :
        /\ events[i].outcome \in Committed
        /\ ~events[i].dOk
        /\ \E r \in jobs :
             r.description # NULL /\ r.embedding = NoVec /\ r.title_embedding # NoVec

\* The batch of five drafts was run once, the embedding call of record 3
\* failed and no other call did.
Batch5ThirdEmbeddingFailed ==
    /\ files = Batch5
    /\ run = 1
    /\ pc = "done"
    /\ faults = 1
    /\ \E i \in JobEvents : events[i].idx = 3 /\ ~events[i].tOk

\* C4 as stated: with the embedding call of record 3 of 5 failing, records
\* 1, 2, 4 and 5 are upserted and exactly one failure is reported.
C4_Original ==
    Batch5ThirdEmbeddingFailed =>
        /\ {1, 2, 4, 5} \subseteq {r.id : r \in jobs}
        /\ CountOutcome(events, {"failed"}) = 1

\* C4 amended: with the embedding call of record 3 of 5 failing, all five
\* records are upserted, records 1, 2, 4 and 5 with their title embedding
\* and record 3 with a null one, the summary counts five processed jobs, and
\* no record is reported as failed.
C4_AllFiveUpserted ==
    Batch5ThirdEmbeddingFailed =>
        /\ {r.id : r \in jobs} = {1, 2, 3, 4, 5}
        /\ \A r \in jobs : (r.title_embedding = NoVec) <=> (r.id = 3)
        /\ \A r \in jobs : r.embedding = NoVec
        /\ total_jobs_processed = 5
        /\ CountOutcome(events, {"failed"}) = 0

C4_Witness ==
    /\ Batch5ThirdEmbeddingFailed
    /\ Cardinality(jobs) = 5

\* C5: resolving a name that has a row returns the id of that row and adds
\* nothing; a name never has two rows; and the row of the returned id is in
\* the committed table when the resolver returns.
C5_GetOrCreate ==
    /\ [](\A r1, r2 \in companies : r1.name = r2.name => r1 = r2)
    /\ [](\A i \in CompanyEvents :
             [id |-> events[i].id, name |-> events[i].name] \in companies)
    /\ [][(pc = "file" /\ fileIdx <= Len(files)
             /\ \E r \in companies : r.name = CompanyNameOf(CurFile.stem))
            => /\ pc' = "load"
               /\ companies' = companies
               /\ [id |-> company_id', name |-> CompanyNameOf(CurFile.stem)]
                     \in companies]_vars
    /\ [][(pc' = "load") =>
            /\ [id |-> company_id', name |-> company_name'] \in companies'
            /\ pending' = <<>>]_vars

\* Two files of one run resolved the same name and got the same id.
C5_Witness ==
    \E i, k \in CompanyEvents :
        /\ i < k
        /\ events[i].name = events[k].name
        /\ events[i].id = events[k].id
        /\ Cardinality(companies) = 1

(***************************************************************************)
(* SpecRace: concurrent executions of get_or_create_company, each in a     *)
(* session of its own, against one companies table. Each process resolves  *)
(* the names of its files in order; a call that raises is caught by the    *)
(* file's except clause and the process goes on with its next file.        *)
(***************************************************************************)
Procs == {"p1", "p2"}

RaceNames == { <<"A">>, <<"B">> }

ashbyLocals == <<files, run, pc, fileIdx, jobIdx, company_name, company_id,
                 jobs, pending, total_jobs_processed, faults, attempt, events,
                 snapshot>>

RaceInit ==
    /\ rCalls \in [Procs -> (SeqsUpTo(RaceNames, MaxCalls) \ {<<>>})]
    /\ rIdx = [p \in Procs |-> 1]
    /\ rPc = [p \in Procs |-> "lookup"]
    /\ rResult = [p \in Procs |-> NULL]
    /\ companies = {}

RaceName(p) == rCalls[p][rIdx[p]]

\* Line 74-76: the lookup, and the return of the id when a row is found.
RaceLookup(p) ==
    /\ rPc[p] = "lookup"
    /\ LET found == FindCompany(companies, RaceName(p)) IN
       IF found # {}
       THEN \E r \in found :
              /\ rResult' = [rResult EXCEPT ![p] = r.id]
              /\ rPc' = [rPc EXCEPT ![p] = "returned"]
       ELSE /\ rPc' = [rPc EXCEPT ![p] = "add"]
            /\ UNCHANGED rResult
    /\ UNCHANGED <<rCalls, rIdx, companies, ashbyLocals, googleVars, locVars, slugVars, findVars, postVars>>

\* Lines 78-79: the new row is added to the process's session.
RaceAdd(p) ==
    /\ rPc[p] = "add"
    /\ rPc' = [rPc EXCEPT ![p] = "commit"]
    /\ UNCHANGED <<rCalls, rIdx, rResult, companies, ashbyLocals, googleVars,
                   locVars, slugVars, findVars, postVars>>

\* Lines 80-81: the commit inserts the row under a fresh id, or raises when
\* the table's constraints reject it.
RaceCommit(p) ==
    /\ rPc[p] = "commit"
    /\ LET fresh == {id \in CompanyIds : \A r \in companies : r.id # id}
           ok    == {id \in fresh :
                       CompanyInsertOk(companies, [id |-> id, name |-> RaceName(p)])}
       IN  IF ok # {}
           THEN \E id \in ok :
                  /\ companies' = companies \cup {[id |-> id, name |-> RaceName(p)]}
                  /\ rResult' = [rResult EXCEPT ![p] = id]
                  /\ rPc' = [rPc EXCEPT ![p] = "returned"]
           ELSE /\ rPc' = [rPc EXCEPT ![p] = "raised"]
                /\ UNCHANGED <<companies, rResult>>
    /\ UNCHANGED <<rCalls, rIdx, ashbyLocals, googleVars, locVars, slugVars, findVars, postVars>>

\* Lines 153-166 and 232-233: the process's next file.
RaceNextCall(p) ==
    /\ rPc[p] \in {"returned", "raised"}
    /\ rIdx[p] < Len(rCalls[p])
    /\ rIdx' = [rIdx EXCEPT ![p] = rIdx[p] + 1]
    /\ rPc' = [rPc EXCEPT ![p] = "lookup"]
    /\ UNCHANGED <<rCalls, rResult, companies, ashbyLocals, googleVars, locVars, slugVars, findVars, postVars>>

RaceNext ==
    \E p \in Procs :
        \/ RaceLookup(p)
        \/ RaceAdd(p)
        \/ RaceCommit(p)
        \/ RaceNextCall(p)

InitRace ==
    RaceInit /\ AshbyIdle /\ GoogleIdle /\ LocIdle /\ SlugIdle
    /\ FindIdle /\ PostIdle

SpecRace == InitRace /\ [][RaceNext]_vars

\* C6: whatever the interleaving of concurrent get_or_create_company
\* executions, the companies table never holds two rows of one name.
C6_OneRowPerName ==
    \A r1, r2 \in companies : r1.name = r2.name => r1.id = r2.id

\* Two executions for one name both missed the lookup; one committed its
\* row, the commit of the other was rejected, and the name has one row.
C6_Witness ==
    \E p, q \in Procs :
        /\ p # q
        /\ RaceName(p) = RaceName(q)
        /\ rIdx[p] = 1 /\ rIdx[q] = 1
        /\ rPc[p] = "returned"
        /\ rPc[q] = "raised"
        /\ Cardinality({r \in companies : r.name = RaceName(p)}) = 1

(***************************************************************************)
(* google/parser.py. A JSON value is a record tagged by k: "str" (s: its   *)
(* characters), "list" (items), "dict" (hasData, data: its "data" key),    *)
(* "num", "null". A Python str is the sequence of its characters.          *)
(***************************************************************************)
JStr(s) == [k |-> "str", s |-> s]
JList(xs) == [k |-> "list", items |-> xs]
JDict(hasData, data) == [k |-> "dict", hasData |-> hasData, data |-> data]
JNum == [k |-> "num"]
JNull == [k |-> "null"]

\* What the parser returns for "no job" and for "no location name".
NoJob == [none |-> TRUE]
NoName == <<"None">>
\* An exception leaving normalize_job_entry or parse_jobs.
Raised == [error |-> "raised"]

\* The characters str.strip() removes, as far as the inputs use them.
Whitespace == {" ", "\t"}

RECURSIVE LStrip(_)
LStrip(s) == IF s # <<>> /\ Head(s) \in Whitespace THEN LStrip(Tail(s)) ELSE s

RECURSIVE RStrip(_)
RStrip(s) ==
    IF s # <<>> /\ s[Len(s)] \in Whitespace THEN RStrip(SubSeq(s, 1, Len(s) - 1)) ELSE s

\* str.strip()
Strip(s) == RStrip(LStrip(s))

\* value.strip(): an AttributeError when value is no str.
StrStrip(v) == IF v.k = "str" THEN Strip(v.s) ELSE RAISE

\* _coerce_str without its isinstance test.
_coerce_str_NoCheck(value) == StrStrip(value)

\* _coerce_str (31-32)
_coerce_str(value) == IF value.k = "str" THEN StrStrip(value) ELSE <<>>

\* extract_job_entries (19-28)
extract_job_entries(ds1_payload) ==
    LET p == IF ds1_payload.k = "dict"
             THEN (IF ds1_payload.hasData THEN ds1_payload.data ELSE JNull)
             ELSE ds1_payload
    IN  IF p.k # "list" THEN <<>>
        ELSE IF p.items = <<>> THEN <<>>
        ELSE IF p.items[1].k = "list" THEN p.items[1].items
        ELSE <<>>

RECURSIVE FirstInSub(_)
\* Lines 46-50: the first non-empty stripped string of a nested list.
FirstInSub(subs) ==
    IF subs = <<>> THEN NoName
    ELSE IF Head(subs).k = "str" /\ Strip(Head(subs).s) # <<>>
         THEN Strip(Head(subs).s)
         ELSE FirstInSub(Tail(subs))

RECURSIVE FirstInItems(_)
\* Lines 40-50: the loop over the items of a list location.
FirstInItems(items) ==
    IF items = <<>> THEN NoName
    ELSE LET item == Head(items) IN
         IF item.k = "str"
         THEN (IF Strip(item.s) # <<>> THEN Strip(item.s)
               ELSE FirstInItems(Tail(items)))
         ELSE IF item.k = "list"
         THEN (IF FirstInSub(item.items) # NoName THEN FirstInSub(item.items)
               ELSE FirstInItems(Tail(items)))
         ELSE FirstInItems(Tail(items))

\* _extract_location_name (35-51)
_extract_location_name(raw_location) ==
    IF raw_location.k = "str"
    THEN (IF Strip(raw_location.s) # <<>> THEN Strip(raw_location.s) ELSE NoName)
    ELSE IF raw_location.k = "list" THEN FirstInItems(raw_location.items)
    ELSE NoName

InSeq(x, s) == \E i \in 1..Len(s) : s[i] = x

RECURSIVE OrderedAll(_, _)
\* The loop of _format_locations without its membership test.
OrderedAll(raws, acc) ==
    IF raws = <<>> THEN acc
    ELSE LET name == _extract_location_name(Head(raws)) IN
         OrderedAll(Tail(raws),
                    IF name # NoName /\ name # <<>> THEN Append(acc, name) ELSE acc)

RECURSIVE OrderedUnique(_, _)
\* Lines 57-61: the names in first-seen order, each once.
OrderedUnique(raws, acc) ==
    IF raws = <<>> THEN acc
    ELSE LET name == _extract_location_name(Head(raws)) IN
         OrderedUnique(Tail(raws),
                       IF name # NoName /\ name # <<>> /\ ~InSeq(name, acc)
                       THEN Append(acc, name) ELSE acc)

RECURSIVE Join(_, _)
\* sep.join(names)
Join(sep, names) ==
    IF names = <<>> THEN <<>>
    ELSE IF Len(names) = 1 THEN names[1]
    ELSE names[1] \o sep \o Join(sep, Tail(names))

CommaSpace == <<",", " ">>

\* _format_locations without the removal of duplicates.
_format_locations_NoDedup(raw_locations) ==
    IF raw_locations.k # "list" THEN <<>>
    ELSE Join(CommaSpace, OrderedAll(raw_locations.items, <<>>))

\* _format_locations (54-62)
_format_locations(raw_locations) ==
    IF raw_locations.k # "list" THEN <<>>
    ELSE Join(CommaSpace, OrderedUnique(raw_locations.items, <<>>))

\* len(entry) of a Sequence: a list or a str.
EntryLen(entry) == IF entry.k = "list" THEN Len(entry.items) ELSE Len(entry.s)

\* get(idx) of normalize_job_entry (69-70); idx counts from 0.
EntryGet(entry, idx) ==
    IF idx < EntryLen(entry)
    THEN (IF entry.k = "list" THEN entry.items[idx + 1]
          ELSE JStr(<<entry.s[idx + 1]>>))
    ELSE JNull

Google == <<"G", "o", "o", "g", "l", "e">>

\* The dict normalize_job_entry returns (81-87).
JobDict(url, title, locations, company, ats_id) ==
    [url |-> url, title |-> title, location |-> locations,
     company |-> company, ats_id |-> ats_id]

\* normalize_job_entry without the test of lines 78-79.
normalize_job_entry_NoKeyCheck(entry) ==
    IF entry.k \notin {"list", "str"} THEN NoJob
    ELSE IF EntryLen(entry) = 0 THEN NoJob
    ELSE LET ats_id  == _coerce_str(EntryGet(entry, 0))
             title   == _coerce_str(EntryGet(entry, 1))
             url     == _coerce_str(EntryGet(entry, 2))
             comp    == _coerce_str(EntryGet(entry, 7))
             company == IF comp = <<>> THEN Google ELSE comp
             locs    == _format_locations(EntryGet(entry, 9))
         IN  IF RAISE \in {ats_id, title, url, comp} THEN Raised
             ELSE JobDict(url, title, locs, company, ats_id)

\* normalize_job_entry (65-87)
normalize_job_entry(entry) ==
    IF entry.k \notin {"list", "str"} THEN NoJob
    ELSE IF EntryLen(entry) = 0 THEN NoJob
    ELSE LET ats_id  == _coerce_str(EntryGet(entry, 0))
             title   == _coerce_str(EntryGet(entry, 1))
             url     == _coerce_str(EntryGet(entry, 2))
             comp    == _coerce_str(EntryGet(entry, 7))
             company == IF comp = <<>> THEN Google ELSE comp
             locs    == _format_locations(EntryGet(entry, 9))
         IN  IF RAISE \in {ats_id, title, url, comp} THEN Raised
             ELSE IF ats_id = <<>> /\ url = <<>> THEN NoJob
             ELSE JobDict(url, title, locs, company, ats_id)

RECURSIVE Reverse(_)
Reverse(q) == IF q = <<>> THEN <<>> ELSE Append(Reverse(Tail(q)), Head(q))

\* parse_jobs putting each job in front of the list.
parse_jobs_Prepend(ds1_payload) ==
    LET entries == extract_job_entries(ds1_payload)
        results == [i \in 1..Len(entries) |-> normalize_job_entry(entries[i])]
    IN  IF \E i \in 1..Len(results) : results[i] = Raised
        THEN Raised
        ELSE [jobs |-> Reverse(SelectSeq(results, LAMBDA r : r # NoJob))]

\* parse_jobs (90-96): the jobs of the rows that normalize, in row order;
\* Raised when a row raises.
parse_jobs(ds1_payload) ==
    LET entries == extract_job_entries(ds1_payload)
        results == [i \in 1..Len(entries) |-> normalize_job_entry(entries[i])]
    IN  IF \E i \in 1..Len(results) : results[i] = Raised
        THEN Raised
        ELSE [jobs |-> SelectSeq(results, LAMBDA r : r # NoJob)]

(***************************************************************************)
(* google/export_to_csv.py and google/main.py.                             *)
(***************************************************************************)
\* export_utils.generate_job_id: a digest of the source and the two key
\* fields, kept here as the triple itself.
generate_job_id(source, url, ats_id) == <<source, url, ats_id>>

\* _unique_key (44-45)
_unique_key(job) == <<job.ats_id, job.url>>

\* _job_to_row with one key argument: the url, or the ats_id when there is
\* no url.
_job_to_row_Conflated(job) ==
    [url |-> job.url, title |-> job.title, location |-> job.location,
     company |-> job.company, ats_id |-> job.ats_id,
     id |-> generate_job_id("google",
                            IF job.url # <<>> THEN job.url ELSE job.ats_id, <<>>)]

\* _job_to_row (48-59)
_job_to_row(job) ==
    [url |-> job.url, title |-> job.title, location |-> job.location,
     company |-> job.company, ats_id |-> job.ats_id,
     id |-> generate_job_id("google", job.url, job.ats_id)]

\* The arguments of the generate_job_id call made for a job (line 58 of
\* export_to_csv.py, line 82 of main.py).
GenCall(job) == [url |-> job.url, ats_id |-> job.ats_id]

\* build_csv_rows with the two key arguments in the other order.
build_csv_rows_Swapped(js) ==
    [i \in 1..Len(js) |->
        [url |-> js[i].url, title |-> js[i].title, location |-> js[i].location,
         company |-> js[i].company, ats_id |-> js[i].ats_id,
         id |-> generate_job_id("google", js[i].ats_id, js[i].url)]]

\* build_csv_rows (79-84 of main.py)
build_csv_rows(js) ==
    [i \in 1..Len(js) |->
        [url |-> js[i].url, title |-> js[i].title, location |-> js[i].location,
         company |-> js[i].company, ats_id |-> js[i].ats_id,
         id |-> generate_job_id("google", js[i].url, js[i].ats_id)]]

(***************************************************************************)
(* Inputs: ds:1 payloads.                                                  *)
(***************************************************************************)
\* A positional row: id at 0, title at 1, url at 2, company at 7,
\* locations at 9.
GRow(id, title, url, company, locs) ==
    JList(<<id, title, url, JNull, JNull, JNull, JNull, company, JNull, locs>>)

T1 == JStr(<<"T", "1">>)
T2 == JStr(<<"T", "2">>)

ExampleLocations ==
    JList(<< JList(<<JStr(<<"N", "e", "w", " ", "Y", "o", "r", "k">>), JStr(<<"N", "Y">>)>>),
             JStr(<<"R", "e", "m", "o", "t", "e">>),
             JList(<<JStr(<<"N", "e", "w", " ", "Y", "o", "r", "k">>), JStr(<<"N", "Y">>)>>) >>)

RowShapes ==
    { GRow(JStr(<<"7">>), T1, JStr(<<>>), JNull, ExampleLocations),
      GRow(JStr(<<" ", "7">>), T2, JNull, JStr(<<"X">>), JNull),
      GRow(JNull, T1, JStr(<<"u">>), JNull, JList(<<JStr(<<"a">>)>>)),
      GRow(JStr(<<"7">>), T1, JStr(<<"u", " ">>), JNull, JNull),
      GRow(JNull, T2, JStr(<<"7">>), JNull, JNull),
      GRow(JStr(<<" ">>), T1, JStr(<<"\t", " ">>), JNull, JNull),
      GRow(JNum, T1, JNull, JNull, JNull),
      JList(<<JStr(<<"7">>)>>),
      JList(<<JStr(<<>>), T1>>),
      JList(<<>>),
      JStr(<<"7", " ", "u">>),
      JStr(<<" ">>),
      JNum,
      JDict(FALSE, JNull) }

\* The payload shapes of section 6: a bare list with the rows at index 0,
\* or a dict with that list under "data".
BarePayload(rows) == JList(<<JList(rows), JNull>>)
DictPayload(rows) == JDict(TRUE, JList(<<JList(rows)>>))

MalformedPayloads ==
    { JNum, JList(<<>>), JList(<<JNum>>), JDict(FALSE, JNull), JDict(TRUE, JNull) }

RawFile(kind, payload) == [kind |-> kind, payload |-> payload]

\* One file whose payload holds up to MaxRows rows.
OneRawFile ==
    { <<RawFile("ok", BarePayload(rows))>> : rows \in SeqsUpTo(RowShapes, MaxRows) }
    \cup { <<RawFile("ok", p)>> : p \in MalformedPayloads }
    \cup { <<RawFile("badjson", JNull)>> }

RawFileShapes ==
    { RawFile("badjson", JNull),
      RawFile("ok", BarePayload(<<GRow(JStr(<<"7">>), T1, JStr(<<>>), JNull, JNull)>>)),
      RawFile("ok", DictPayload(<<GRow(JStr(<<" ", "7">>), T2, JNull, JNull, JNull),
                                  GRow(JNull, T1, JStr(<<"u">>), JNull, JNull)>>)),
      RawFile("ok", JNum) }

\* Up to MaxGFiles files, or none.
ManyRawFiles == { fs \in SeqsUpTo(RawFileShapes, MaxGFiles) : Len(fs) # 1 }

diffVars == <<gPrior, gMerge>>

\* The fields of a row that are compared with the stored record.
ObservedFields == {"url", "title", "location", "company", "ats_id"}

NoMerge == [toInsert |-> {}, toUpdate |-> {}, unchanged |-> {}]

\* merge classifying every draft whose id is stored as an update.
merge_UpdateAll(newBatch, priorState) ==
    LET ids == {priorState[k].id : k \in 1..Len(priorState)}
    IN  [toInsert  |-> {i \in 1..Len(newBatch) : newBatch[i].id \notin ids},
         toUpdate  |-> {i \in 1..Len(newBatch) : newBatch[i].id \in ids},
         unchanged |-> {i \in 1..Len(newBatch) :
                          \E k \in 1..Len(priorState) :
                             /\ priorState[k].id = newBatch[i].id
                             /\ \A f \in ObservedFields :
                                   priorState[k][f] = newBatch[i][f]}]

\* The classification write_jobs_csv (export_utils) makes of a batch against
\* the previous file, after section 4.4: a draft is toInsert when its id is
\* not stored, toUpdate when it is stored and an observed field differs
\* from the stored record, unchanged when it is stored and none differs.
\* The drafts are named by their position in the batch.
merge(newBatch, priorState) ==
    LET ids == {priorState[k].id : k \in 1..Len(priorState)}
    IN  [toInsert  |-> {i \in 1..Len(newBatch) : newBatch[i].id \notin ids},
         toUpdate  |-> {i \in 1..Len(newBatch) :
                          \E k \in 1..Len(priorState) :
                             /\ priorState[k].id = newBatch[i].id
                             /\ \E f \in ObservedFields :
                                   priorState[k][f] # newBatch[i][f]},
         unchanged |-> {i \in 1..Len(newBatch) :
                          \E k \in 1..Len(priorState) :
                             /\ priorState[k].id = newBatch[i].id
                             /\ \A f \in ObservedFields :
                                   priorState[k][f] = newBatch[i][f]}]

\* The CSV a previous run left: no rows, or the one row written for a job.
PriorStates ==
    { <<>> } \cup
    { build_csv_rows(<<j>>) :
        j \in { JobDict(<<>>, <<"T", "1">>, _format_locations(ExampleLocations),
                        Google, <<"7">>),
                JobDict(<<>>, <<"T", "2">>, <<>>, <<"X">>, <<"7">>),
                JobDict(<<"u">>, <<"T", "1">>, <<"a">>, Google, <<>>) } }

GoogleInit ==
    /\ gPath \in {"export", "fetch"}
    /\ gFiles \in (IF gPath = "export" THEN OneRawFile \cup ManyRawFiles ELSE OneRawFile)
    /\ gPc = "start"
    /\ gFileIdx = 1
    /\ gEntries = <<>>
    /\ gJobs = <<>>
    /\ gJobIdx = 1
    /\ seen = {}
    /\ job_rows = <<>>
    /\ genCalls = <<>>
    /\ gCsv = <<>>
    /\ gPrior \in PriorStates
    /\ gMerge = NoMerge

notGoogle == <<ashbyVars, raceVars, locVars, slugVars, findVars, postVars>>

\* export_to_csv.main, lines 63-69.
GStart ==
    /\ gPath = "export"
    /\ gPc = "start"
    /\ gPc' = IF gFiles = <<>> THEN "done" ELSE "load"
    /\ UNCHANGED <<gPath, gFiles, gFileIdx, gEntries, gJobs, gJobIdx, seen,
                   job_rows, genCalls, gCsv, diffVars, notGoogle>>

\* export_to_csv.main, lines 71-73, with _load_jobs_from_path (34-41).
GLoad ==
    /\ gPath = "export"
    /\ gPc = "load"
    /\ gFileIdx <= Len(gFiles)
    /\ LET f == gFiles[gFileIdx] IN
       IF f.kind = "badjson"
       THEN /\ gJobs' = <<>>
            /\ gEntries' = <<>>
            /\ gPc' = "agg"
       ELSE IF parse_jobs(f.payload) = Raised
       THEN /\ gPc' = "raised"
            /\ UNCHANGED <<gJobs, gEntries>>
       ELSE /\ gJobs' = parse_jobs(f.payload).jobs
            /\ gEntries' = extract_job_entries(f.payload)
            /\ gPc' = "agg"
    /\ gJobIdx' = 1
    /\ UNCHANGED <<gPath, gFiles, gFileIdx, seen, job_rows, genCalls, gCsv,
                   diffVars, notGoogle>>

\* export_to_csv.main, lines 74-81: one turn of the loop over jobs.
GAggregate ==
    /\ gPath = "export"
    /\ gPc = "agg"
    /\ gJobIdx <= Len(gJobs)
    /\ LET job == gJobs[gJobIdx]
           key == _unique_key(job)
       IN  IF (key[1] = <<>> /\ key[2] = <<>>) \/ key \in seen
           THEN UNCHANGED <<seen, job_rows, genCalls>>
           ELSE /\ seen' = seen \cup {key}
                /\ job_rows' = Append(job_rows, _job_to_row(job))
                /\ genCalls' = Append(genCalls, GenCall(job))
    /\ gJobIdx' = gJobIdx + 1
    /\ UNCHANGED <<gPath, gFiles, gPc, gFileIdx, gEntries, gJobs, gCsv,
                   diffVars, notGoogle>>

\* export_to_csv.main, line 74: the jobs of the file are exhausted.
GNextFile ==
    /\ gPath = "export"
    /\ gPc = "agg"
    /\ gJobIdx > Len(gJobs)
    /\ gFileIdx' = gFileIdx + 1
    /\ gPc' = "load"
    /\ UNCHANGED <<gPath, gFiles, gEntries, gJobs, gJobIdx, seen, job_rows,
                   genCalls, gCsv, diffVars, notGoogle>>

\* export_to_csv.main, lines 83-86: the rows go to write_jobs_csv.
GWrite ==
    /\ gPath = "export"
    /\ gPc = "load"
    /\ gFileIdx > Len(gFiles)
    /\ gCsv' = job_rows
    /\ gMerge' = merge(job_rows, gPrior)
    /\ gPc' = "done"
    /\ UNCHANGED <<gPath, gFiles, gFileIdx, gEntries, gJobs, gJobIdx, seen,
                   job_rows, genCalls, gPrior, notGoogle>>

\* main.run, lines 112-128: the payload is read (json.loads raises on a
\* file that is no JSON) and parsed.
FParse ==
    /\ gPath = "fetch"
    /\ gPc = "start"
    /\ LET f == gFiles[1] IN
       IF f.kind = "badjson"
       THEN /\ gPc' = "crashed"
            /\ UNCHANGED <<gJobs, gEntries>>
       ELSE IF parse_jobs(f.payload) = Raised
       THEN /\ gPc' = "raised"
            /\ UNCHANGED <<gJobs, gEntries>>
       ELSE /\ gJobs' = parse_jobs(f.payload).jobs
            /\ gEntries' = extract_job_entries(f.payload)
            /\ gPc' = "build"
    /\ UNCHANGED <<gPath, gFiles, gFileIdx, gJobIdx, seen, job_rows, genCalls,
                   gCsv, diffVars, notGoogle>>

\* main.run, line 130: build_csv_rows.
FBuild ==
    /\ gPath = "fetch"
    /\ gPc = "build"
    /\ job_rows' = build_csv_rows(gJobs)
    /\ genCalls' = [i \in 1..Len(gJobs) |-> GenCall(gJobs[i])]
    /\ gPc' = "write"
    /\ UNCHANGED <<gPath, gFiles, gFileIdx, gEntries, gJobs, gJobIdx, seen,
                   gCsv, diffVars, notGoogle>>

\* main.run, lines 131-135: the rows go to write_jobs_csv.
FWrite ==
    /\ gPath = "fetch"
    /\ gPc = "write"
    /\ gCsv' = job_rows
    /\ gMerge' = merge(job_rows, gPrior)
    /\ gPc' = "done"
    /\ UNCHANGED <<gPath, gFiles, gFileIdx, gEntries, gJobs, gJobIdx, seen,
                   job_rows, genCalls, gPrior, notGoogle>>

GoogleNext ==
    \/ GStart
    \/ GLoad
    \/ GAggregate
    \/ GNextFile
    \/ GWrite
    \/ FParse
    \/ FBuild
    \/ FWrite

InitGoogle ==
    GoogleInit /\ AshbyIdle /\ companies = {} /\ RaceIdle /\ LocIdle /\ SlugIdle
    /\ FindIdle /\ PostIdle

SpecGoogle == InitGoogle /\ [][GoogleNext]_vars

(***************************************************************************)
(* Properties of the Google path.                                          *)
(***************************************************************************)
RowKey(row) == <<row.ats_id, row.url>>

\* C7 as stated: two drafts of one batch with the identical natural key
\* (native id, URL) are reduced to one record before the batch is written,
\* so the rows handed to write_jobs_csv have pairwise distinct keys.
\* main.run hands both rows on.
C7_DedupBeforeWrite ==
    gPc = "done" =>
        \A i, j \in 1..Len(gCsv) : i # j => RowKey(gCsv[i]) # RowKey(gCsv[j])

NonBlank(chars) == \E i \in 1..Len(chars) : chars[i] \notin Whitespace

\* The element at position idx of the row is a string with a character
\* that is no whitespace.
Populated(entry, idx) ==
    \/ /\ entry.k = "list"
       /\ Len(entry.items) > idx
       /\ entry.items[idx + 1].k = "str"
       /\ NonBlank(entry.items[idx + 1].s)
    \/ /\ entry.k = "str"
       /\ Len(entry.s) > idx
       /\ entry.s[idx + 1] \notin Whitespace

Keyed(entry) == Populated(entry, 0) \/ Populated(entry, 2)

Parsed == gPc \in {"agg", "build"}

\* C8: a row whose index 0 and index 2 are both empty (absent, non-string
\* or blank after trimming) produces no draft, and no exception leaves the
\* adapter for any row shape: parse_jobs never raises, and its drafts are
\* as many as the rows with index 0 or index 2 populated, each draft with a
\* key.
C8_MalformedRowSkipped ==
    /\ gPc # "raised"
    /\ Parsed =>
        /\ Len(gJobs) = Cardinality({i \in 1..Len(gEntries) : Keyed(gEntries[i])})
        /\ \A i \in 1..Len(gJobs) : gJobs[i].ats_id # <<>> \/ gJobs[i].url # <<>>

\* A positional row with every index present and both keys empty was
\* parsed next to a keyed row, and one draft came out.
C8_Witness ==
    /\ Parsed
    /\ Len(gEntries) = 2
    /\ gEntries[1].k = "list"
    /\ Len(gEntries[1].items) >= 3
    /\ ~Keyed(gEntries[1])
    /\ Keyed(gEntries[2])
    /\ Len(gJobs) = 1

\* C9: on both export paths every call of generate_job_id is made with at
\* least one of url and ats_id non-empty.
C9_NoEmptyKeyToGenerator ==
    \A i \in 1..Len(genCalls) : genCalls[i].url # <<>> \/ genCalls[i].ats_id # <<>>

\* main.run finished on a payload with a row without key and a row with
\* one: the generator was called for the second only.
C9_Witness ==
    /\ gPath = "fetch"
    /\ gPc = "done"
    /\ Len(gEntries) = 2
    /\ \E i \in 1..2 : ~Keyed(gEntries[i])
    /\ Len(genCalls) = 1

(***************************************************************************)
(* _format_locations as a function of its input.                           *)
(***************************************************************************)
A1 == JStr(<<"a">>)
B1 == JStr(<<"b">>)

LocationShapes ==
    { A1,
      JStr(<<" ", "a", "\t">>),
      JStr(<<" ">>),
      JStr(<<"N", " ", "Y">>),
      JList(<<A1, B1>>),
      JList(<<JStr(<<>>), B1>>),
      JList(<<JList(<<JStr(<<" ">>), JStr(<<"c">>)>>), A1>>),
      JList(<<JNum, JList(<<JNum>>), JStr(<<"b", " ">>)>>),
      JList(<<JList(<<JList(<<A1>>)>>)>>),
      JList(<<>>),
      JNum,
      JNull }

LocationInputs ==
    { JList(raws) : raws \in SeqsUpTo(LocationShapes, MaxLocs) }
    \cup { ExampleLocations, JNull, A1, JNum }

LocInit ==
    /\ lRaw \in LocationInputs
    /\ lOut = <<>>
    /\ lPc = "in"

\* A call of _format_locations (54-62).
FormatLocations ==
    /\ lPc = "in"
    /\ lOut' = _format_locations(lRaw)
    /\ lPc' = "out"
    /\ UNCHANGED <<lRaw, ashbyVars, raceVars, googleVars, slugVars, findVars, postVars>>

LocNext == FormatLocations

InitLoc ==
    LocInit /\ AshbyIdle /\ companies = {} /\ RaceIdle /\ GoogleIdle /\ SlugIdle
    /\ FindIdle /\ PostIdle

SpecLocations == InitLoc /\ [][LocNext]_vars

RECURSIVE Flat(_)
\* The strings of an entry's items, nested lists opened one level.
Flat(items) ==
    IF items = <<>> THEN <<>>
    ELSE LET item == Head(items)
             here == IF item.k = "str" THEN <<item.s>>
                     ELSE IF item.k = "list"
                     THEN LET strs == SelectSeq(item.items, LAMBDA x : x.k = "str")
                          IN  [i \in 1..Len(strs) |-> strs[i].s]
                     ELSE <<>>
         IN  here \o Flat(Tail(items))

\* The first non-empty trimmed string of an entry, NoName when it has none.
RefName(entry) ==
    LET cands == IF entry.k = "str" THEN <<entry.s>>
                 ELSE IF entry.k = "list" THEN Flat(entry.items)
                 ELSE <<>>
        full  == SelectSeq(cands, NonBlank)
    IN  IF full = <<>> THEN NoName ELSE Strip(full[1])

RECURSIVE RefConcat(_)
RefConcat(parts) ==
    IF parts = <<>> THEN <<>>
    ELSE parts[1] \o (IF Len(parts) > 1 THEN <<",", " ">> ELSE <<>>)
                  \o RefConcat(Tail(parts))

\* The names of the entries, each at its first occurrence, joined by ", ".
RefFormat(raws) ==
    LET names == [i \in 1..Len(raws) |-> RefName(raws[i])]
        first(i) == names[i] # NoName /\ \A j \in 1..(i - 1) : names[j] # names[i]
        idxs == SelectSeq([i \in 1..Len(raws) |-> i], first)
    IN  RefConcat([k \in 1..Len(idxs) |-> names[idxs[k]]])

NewYorkRemote ==
    <<"N", "e", "w", " ", "Y", "o", "r", "k", ",", " ", "R", "e", "m", "o", "t", "e">>

\* C10: for every raw locations list, _format_locations takes from each
\* entry its first non-empty trimmed string (a bare string, a flat list of
\* strings, or a list of one-level-nested lists) and returns the names
\* joined by ", " in first-seen order without exact duplicates; the list
\* [["New York", "NY"], "Remote", ["New York", "NY"]] gives
\* "New York, Remote".
C10_LocationsFlattened ==
    (lPc = "out" /\ lRaw.k = "list") =>
        /\ lOut = RefFormat(lRaw.items)
        /\ lRaw = ExampleLocations => lOut = NewYorkRemote

\* The example list was formatted.
C10_Witness ==
    /\ lPc = "out"
    /\ lRaw = ExampleLocations
    /\ lOut = NewYorkRemote

(***************************************************************************)
(* Identity of the rows (section 4.2).                                     *)
(***************************************************************************)
RowIdxs == 1..Len(job_rows)

C13_FullReplaceOrInsert ==
    [][(pc = "commit" /\ pc' = "job") =>
        LET new == pending[Len(pending)].row
            old == {r \in jobs : r.id = new.id}
        IN  /\ {r \in jobs' : r.id = new.id} = {new}
            /\ {r \in jobs' : r.id # new.id} = {r \in jobs : r.id # new.id}
            /\ (old # {} =>
                  /\ Cardinality(jobs') = Cardinality(jobs)
                  /\ events'[Len(events')].outcome = "update")
            /\ (old = {} =>
                  /\ Cardinality(jobs') = Cardinality(jobs) + 1
                  /\ events'[Len(events')].outcome = "insert")]_vars

\* A record with a description and both embeddings was stored, and a later
\* record of the same id without description replaced it: the stored row
\* has the later title and a null description and embedding.
C13_Witness ==
    /\ run = 1
    /\ pc = "job"
    /\ jobIdx = 3
    /\ Len(files) = 1
    /\ files[1].jobs = <<AshbyJob("u1", "t1", "d1"), AshbyJob("U1", "t2", NULL)>>
    /\ Len(events) = 3
    /\ events[2].outcome = "insert"
    /\ events[2].dOk
    /\ events[3].outcome = "update"
    /\ \E r \in jobs :
         /\ jobs = {r}
         /\ r.id = 1
         /\ r.title = "t2"
         /\ r.description = NULL
         /\ r.embedding = NoVec

(***************************************************************************)
(* The summary of a run (lines 235-237).                                   *)
(***************************************************************************)
\* The number of failed records a reader takes from the summary: a count
\* the line does not carry reads as none.
ReportedFailed == IF "failed" \in DOMAIN SummaryLine THEN SummaryLine.failed ELSE 0

InitBatch == InitAshby \/ InitGoogle

BatchNext == AshbyNext \/ GoogleNext

SpecBatch == InitBatch /\ [][BatchNext]_vars

OkFiles == {f \in 1..Len(files) : files[f].kind = "ok"}

\* The ids of the valid records of the well-formed files.
ValidIds ==
    UNION { {UUIDOf(files[f].jobs[i].id) :
                i \in {k \in 1..Len(files[f].jobs) : UUIDValid(files[f].jobs[k].id)}}
            : f \in OkFiles }

OkRawFiles == {f \in 1..Len(gFiles) : gFiles[f].kind = "ok"}

\* The natural keys of the jobs of the raw files that decode.
DecodedKeys ==
    UNION { {_unique_key(parse_jobs(gFiles[f].payload).jobs[i]) :
                i \in 1..Len(parse_jobs(gFiles[f].payload).jobs)}
            : f \in OkRawFiles }

Kill ==
    /\ pc \in {"file", "load", "job", "commit", "except"}
    /\ run = 1
    /\ pc' = "killed"
    /\ pending' = <<>>
    /\ attempt' = NoAttempt
    /\ snapshot' = [jobs |-> jobs, companies |-> companies, faults |-> faults,
                    inserted  |-> CountOutcome(events, {"insert"}),
                    committed |-> CountOutcome(events, {"insert", "update"}),
                    failed    |-> CountOutcome(events, {"failed"})]
    /\ UNCHANGED <<files, run, fileIdx, jobIdx, company_name, company_id,
                   companies, jobs, total_jobs_processed, faults, events>>
    /\ UNCHANGED <<raceVars, googleVars, locVars, slugVars, findVars, postVars>>

\* The pipeline is started again on the same folder and database after a
\* kill.
Restart ==
    /\ pc = "killed"
    /\ run < MaxRuns
    /\ run' = run + 1
    /\ pc' = "file"
    /\ fileIdx' = 1
    /\ jobIdx' = 1
    /\ company_name' = <<>>
    /\ company_id' = NULL
    /\ total_jobs_processed' = 0
    /\ events' = <<>>
    /\ UNCHANGED <<files, companies, jobs, pending, faults, attempt, snapshot>>
    /\ UNCHANGED <<raceVars, googleVars, locVars, slugVars, findVars, postVars>>

KillNext == AshbyNext \/ Kill \/ Restart

SpecAshbyKill == InitAshby /\ [][KillNext]_vars

\* The valid records of the well-formed files, by file and position.
ValidAt ==
    UNION { {<<f, i>> : i \in {k \in 1..Len(files[f].jobs) :
                                   UUIDValid(files[f].jobs[k].id)}}
            : f \in OkFiles }

Later(a, b) == a[1] > b[1] \/ (a[1] = b[1] /\ a[2] > b[2])

\* The last record of each id, in the order of the files and of their jobs.
LastAt == {a \in ValidAt :
             \A b \in ValidAt :
                UUIDOf(files[b[1]].jobs[b[2]].id) = UUIDOf(files[a[1]].jobs[a[2]].id)
                  => ~Later(b, a)}

\* The row a run without kill and without failing call stores for the
\* record at a position; its company_id is the id of the company of that
\* name.
RowOf(a) ==
    LET j     == files[a[1]].jobs[a[2]]
        cname == CompanyNameOf(files[a[1]].stem)
    IN  [id              |-> UUIDOf(j.id),
         title           |-> j.title,
         location        |-> j.location,
         company         |-> cname,
         description     |-> j.description_plain,
         source          |-> "ashby",
         company_id      |-> (CHOOSE c \in companies : c.name = cname).id,
         embedding       |-> IF j.description_plain # NULL
                             THEN <<"vec", j.description_plain>> ELSE NoVec,
         title_embedding |-> <<"vec", j.title \o "; " \o j.location>>]

UninterruptedResult == {RowOf(a) : a \in LastAt}

\* C16: a run without kill and without failing call stores
\* UninterruptedResult; and when a run is killed at any point, whatever
\* had failed or been committed before, a following complete run on the
\* same folder in which no call fails leaves exactly the same rows, ids and
\* field values.
C16_Resumable ==
    /\ (pc = "done" /\ run = 1 /\ faults = 0) => jobs = UninterruptedResult
    /\ (pc = "done" /\ run >= 2 /\ faults = snapshot.faults)
          => jobs = UninterruptedResult

\* The first run was killed after the first of two records was committed,
\* with no failed call; the second run is complete.
C16_Witness ==
    /\ pc = "done"
    /\ run = 2
    /\ faults = 0
    /\ Len(files) = 1
    /\ Len(files[1].jobs) = 2
    /\ Cardinality(ValidAt) = 2
    /\ snapshot.committed = 1
    /\ snapshot.failed = 0
    /\ Cardinality(snapshot.jobs) = 1
    /\ Cardinality(jobs) = 2

(***************************************************************************)
(* Order of the output (section 4.4).                                      *)
(***************************************************************************)
\* The trimmed string at a position of a row, empty when the position is
\* not populated.
RefField(entry, idx) ==
    IF ~Populated(entry, idx) THEN <<>>
    ELSE IF entry.k = "list" THEN Strip(entry.items[idx + 1].s)
    ELSE <<entry.s[idx + 1]>>

\* The positions of the valid rows, in row order.
ValidRows == SelectSeq([i \in 1..Len(gEntries) |-> i], LAMBDA i : Keyed(gEntries[i]))

RECURSIVE JobsFrom(_)
\* The jobs of the raw files from a position on, file after file.
JobsFrom(f) ==
    IF f > Len(gFiles) THEN <<>>
    ELSE (IF gFiles[f].kind = "ok" THEN parse_jobs(gFiles[f].payload).jobs ELSE <<>>)
         \o JobsFrom(f + 1)

\* What of a draft is compared: its natural key and its title.
Shown(r) == <<r.ats_id, r.url, r.title>>

\* The drafts in order, each natural key at its first occurrence.
FirstSeen(js) ==
    LET first(i) == \A k \in 1..(i - 1) : _unique_key(js[k]) # _unique_key(js[i])
        idxs == SelectSeq([i \in 1..Len(js) |-> i], first)
    IN  [k \in 1..Len(idxs) |-> Shown(js[idxs[k]])]

\* C17: parse_jobs yields one job per valid row, in row order, the first
\* job being the first valid row; export_to_csv.main writes the jobs of
\* its files in that order with only the later duplicates of a natural key
\* removed, and main.run writes the jobs in the order parsed.
C17_OrderPreserved ==
    /\ Parsed =>
         /\ Len(gJobs) = Len(ValidRows)
         /\ \A k \in 1..Len(gJobs) :
              /\ gJobs[k].ats_id = RefField(gEntries[ValidRows[k]], 0)
              /\ gJobs[k].title = RefField(gEntries[ValidRows[k]], 1)
              /\ gJobs[k].url = RefField(gEntries[ValidRows[k]], 2)
    /\ (gPath = "export" /\ gPc = "done" /\ gFiles # <<>>) =>
         [i \in 1..Len(gCsv) |-> Shown(gCsv[i])] = FirstSeen(JobsFrom(1))
    /\ (gPath = "fetch" /\ gPc = "done") =>
         [i \in 1..Len(gCsv) |-> Shown(gCsv[i])]
            = [i \in 1..Len(gJobs) |-> Shown(gJobs[i])]

\* Two files were exported: the first holds a row of key ("7", ""), the
\* second a duplicate of it with another title and then a row of key
\* ("", "u"); the rows written are the first and the third, in that order.
C17_Witness ==
    /\ gPath = "export"
    /\ gPc = "done"
    /\ Len(gFiles) = 2
    /\ Len(JobsFrom(1)) = 3
    /\ Len(gCsv) = 2
    /\ Shown(gCsv[1]) = << <<"7">>, <<>>, <<"T", "1">> >>
    /\ Shown(gCsv[2]) = << <<>>, <<"u">>, <<"T", "1">> >>

(***************************************************************************)
(* greenhouse/extract_companies_gh.py and                                  *)
(* workable/extract_companies_workable.py. A line of text is a record:     *)
(* pre says whether it starts with the script's URL prefix                 *)
(* ("https://job-boards.greenhouse.io/", "https://apply.workable.com/"),   *)
(* tail is what follows the prefix (the whole line when pre is false).     *)
(***************************************************************************)
TextLine(pre, tail) == [pre |-> pre, tail |-> tail]

\* extract_company_slug returning None.
NoSlug == <<"None">>

\* The position of the first of the characters cs in q from position from
\* on, 0 when there is none.
FindFirst(q, cs, from) ==
    LET hits == {i \in from..Len(q) : q[i] \in cs}
    IN  IF hits = {} THEN 0 ELSE CHOOSE i \in hits : \A k \in hits : i <= k

\* The position of the last "/" of q, 0 when there is none.
FindLastSlash(q) ==
    LET hits == {i \in 1..Len(q) : q[i] = "/"}
    IN  IF hits = {} THEN 0 ELSE CHOOSE i \in hits : \A k \in hits : i >= k

\* urlparse(url).path for a url of the prefix followed by rest, where "/"
\* \o rest is what follows the host: the query and the fragment are cut
\* off, then the parameters of the last segment.
UrlPath(rest) ==
    LET full == <<"/">> \o rest
        q    == FindFirst(full, {"?", "#"}, 1)
        nq   == IF q = 0 THEN full ELSE SubSeq(full, 1, q - 1)
        semi == FindFirst(nq, {";"}, FindLastSlash(nq))
    IN  IF semi = 0 THEN nq ELSE SubSeq(nq, 1, semi - 1)

\* extract_company_slug (11-28 of extract_companies_gh.py, 11-27 of
\* extract_companies_workable.py) of a url that starts with the prefix.
extract_company_slug(url) ==
    LET t1 == Strip(url.tail)
    IN  IF t1 = <<>> THEN NoSlug
        ELSE LET t2   == IF t1[Len(t1)] = "/" THEN SubSeq(t1, 1, Len(t1) - 1) ELSE t1
                 path == UrlPath(t2)
                 nxt  == FindFirst(path, {"/"}, 2)
                 seg  == IF nxt = 0 THEN SubSeq(path, 2, Len(path))
                         ELSE SubSeq(path, 2, nxt - 1)
             IN  IF seg = <<>> THEN NoSlug ELSE seg

\* extract_from_greenhouse_file / extract_from_workable_file (48-61,
\* 52-65): the slugs of the lines that start with the prefix.
extract_from_file(lines) ==
    {extract_company_slug(lines[i]) : i \in {k \in 1..Len(lines) : lines[k].pre}}
        \ {NoSlug}

StopIteration == [ok |-> FALSE]

\* read_existing_companies (31-45 of extract_companies_gh.py, 30-49 of
\* extract_companies_workable.py): no file gives the empty set; the first
\* row is skipped as the header, and next(reader) on a file without rows
\* raises StopIteration, which only the workable script catches.
read_existing_companies(variant, file) ==
    IF ~file.exists THEN [ok |-> TRUE, slugs |-> {}]
    ELSE IF file.rows = <<>>
    THEN (IF variant = "greenhouse" THEN StopIteration
          ELSE [ok |-> TRUE, slugs |-> {}])
    ELSE [ok |-> TRUE, slugs |-> extract_from_file(Tail(file.rows))]

\* The order of the characters the slugs are made of.
Ascii == <<" ", "#", "/", "1", ";", "?", "a", "b", "j", "o", "s", "x">>
Rank(c) == CHOOSE i \in 1..Len(Ascii) : Ascii[i] = c

RECURSIVE StrLess(_, _)
StrLess(a, b) ==
    IF b = <<>> THEN FALSE
    ELSE IF a = <<>> THEN TRUE
    ELSE IF Head(a) = Head(b) THEN StrLess(Tail(a), Tail(b))
    ELSE Rank(Head(a)) < Rank(Head(b))

\* sorted(companies)
Sorted(S) ==
    CHOOSE q \in [1..Cardinality(S) -> S] :
        \A i, j \in 1..Cardinality(S) : i < j => StrLess(q[i], q[j])

HeaderRow == TextLine(FALSE, <<"u", "r", "l">>)

\* write_companies_csv (64-70, 68-74): the header, then one url per slug.
write_companies_csv(cs) ==
    [exists |-> TRUE,
     rows   |-> <<HeaderRow>> \o [i \in 1..Cardinality(cs) |-> TextLine(TRUE, Sorted(cs)[i])]]

\* The lines a URL list is made of.
LineShapes ==
    { TextLine(TRUE, <<"a">>),
      TextLine(TRUE, <<"a", "/", "j", "o", "b", "s", "/", "1">>),
      TextLine(TRUE, <<"a", ";", "b", "/", "j", "o", "b", "s", "/", "1">>),
      TextLine(TRUE, <<"b", "?", "x">>),
      TextLine(TRUE, <<"b", "/", " ">>),
      TextLine(TRUE, <<>>),
      TextLine(FALSE, <<"x">>) }

UrlLists == SeqsUpTo(LineShapes, MaxLines)

SlugInit ==
    /\ sVariant \in {"greenhouse", "workable"}
    /\ sFile \in { [exists |-> FALSE, rows |-> <<>>],
                   [exists |-> TRUE, rows |-> <<>>],
                   [exists |-> TRUE, rows |-> <<HeaderRow>>] }
    /\ sLines \in UrlLists
    /\ sPc = "start"
    /\ sRun = 1
    /\ sFound = {}
    /\ sExisting = {}
    /\ sAll = {}
    /\ sNew = {}
    /\ sPersisted = {}

notSlug == <<ashbyVars, raceVars, googleVars, locVars, findVars, postVars>>

\* main, lines 78-80 (82-84): the slugs of the URL list.
SExtract ==
    /\ sPc = "start"
    /\ sFound' = extract_from_file(sLines)
    /\ sPc' = "extracted"
    /\ UNCHANGED <<sVariant, sFile, sLines, sRun, sExisting, sAll, sNew,
                   sPersisted, notSlug>>

\* main, lines 82-84 (86-88): the slugs of the CSV on disk.
SReadExisting ==
    /\ sPc = "extracted"
    /\ LET r == read_existing_companies(sVariant, sFile) IN
       IF r = StopIteration
       THEN /\ sPc' = "crashed"
            /\ UNCHANGED sExisting
       ELSE /\ sExisting' = r.slugs
            /\ sPc' = "read"
    /\ UNCHANGED <<sVariant, sFile, sLines, sRun, sFound, sAll, sNew,
                   sPersisted, notSlug>>

\* main, lines 87-97 (91-101): the union and the delta that is reported.
SMerge ==
    /\ sPc = "read"
    /\ sAll' = sExisting \cup sFound
    /\ sNew' = sFound \ sExisting
    /\ sPc' = "merged"
    /\ UNCHANGED <<sVariant, sFile, sLines, sRun, sFound, sExisting,
                   sPersisted, notSlug>>

\* main, lines 100-101 (104-105): the CSV is rewritten.
SWrite ==
    /\ sPc = "merged"
    /\ sFile' = write_companies_csv(sAll)
    /\ sPc' = "written"
    /\ UNCHANGED <<sVariant, sLines, sRun, sFound, sExisting, sAll, sNew,
                   sPersisted, notSlug>>

\* The script is run again, on a new URL list and the CSV it left.
SNextRun ==
    /\ sPc = "written"
    /\ sRun < MaxSlugRuns
    /\ sRun' = sRun + 1
    /\ sLines' \in UrlLists
    /\ sPersisted' = sAll
    /\ sPc' = "start"
    /\ sFound' = {}
    /\ sExisting' = {}
    /\ sAll' = {}
    /\ sNew' = {}
    /\ UNCHANGED <<sVariant, sFile, notSlug>>

SlugNext ==
    \/ SExtract
    \/ SReadExisting
    \/ SMerge
    \/ SWrite
    \/ SNextRun

InitSlugs ==
    SlugInit /\ AshbyIdle /\ companies = {} /\ RaceIdle /\ GoogleIdle /\ LocIdle
    /\ FindIdle /\ PostIdle

SpecSlugs == InitSlugs /\ [][SlugNext]_vars

\* C18 as stated: every run writes the union of the slugs previously
\* persisted and the slugs found in the URL list, reports as new exactly
\* the found slugs that were not persisted, and drops no persisted slug.
C18_UnionWritten ==
    sPc = "written" =>
        /\ sAll = sPersisted \cup sFound
        /\ sNew = sFound \ sPersisted
        /\ sPersisted \subseteq sAll

(***************************************************************************)
(* The classification of a batch against the previous file (section 4.4). *)
(***************************************************************************)
Stored(row) == {k \in 1..Len(gPrior) : gPrior[k].id = row.id}

DiffersFrom(row, k) == \E f \in ObservedFields : gPrior[k][f] # row[f]

C20_CompaniesAppendOnly ==
    /\ [][/\ companies \subseteq companies'
          /\ Cardinality(companies') <= Cardinality(companies) + 1
          /\ \A r \in companies' \ companies :
                \A o \in companies : o.id # r.id /\ o.name # r.name]_vars
    /\ [][(pc = "file" /\ fileIdx <= Len(files) /\ pc' = "load") =>
            \A r \in companies :
                r.name = CompanyNameOf(CurFile.stem) =>
                    /\ companies' = companies
                    /\ company_id' = r.id]_vars

\* The second run resolved a name the first run had created: the table is
\* the one the first run left.
C20_Witness ==
    /\ run = 2
    /\ pc = "load"
    /\ companies # {}
    /\ companies = snapshot.companies
    /\ \E r \in companies : r.name = company_name /\ r.id = company_id

(***************************************************************************)
(* google/parser.py: find_job_by_ats_id, as test_google_parser.py calls    *)
(* it on the jobs of a decoded payload.                                    *)
(***************************************************************************)
RECURSIVE find_job_by_ats_id_Last(_, _)
\* find_job_by_ats_id returning the last job of the id.
find_job_by_ats_id_Last(js, ats_id) ==
    IF js = <<>> THEN NoJob
    ELSE IF js[Len(js)].ats_id = ats_id THEN js[Len(js)]
    ELSE find_job_by_ats_id_Last(SubSeq(js, 1, Len(js) - 1), ats_id)

RECURSIVE find_job_by_ats_id(_, _)
\* find_job_by_ats_id (99-103); None is NoJob.
find_job_by_ats_id(js, ats_id) ==
    IF js = <<>> THEN NoJob
    ELSE IF Head(js).ats_id = ats_id THEN Head(js)
    ELSE find_job_by_ats_id(Tail(js), ats_id)

\* The ids the test looks for.
LookupIds == { <<"7">>, <<" ", "7">>, <<"8">>, <<>> }

SamplePayloads ==
    { BarePayload(rows) : rows \in SeqsUpTo(RowShapes, MaxRows) }
    \cup { DictPayload(<<GRow(JStr(<<"8">>), T2, JStr(<<"u">>), JNull, ExampleLocations)>>) }
    \cup MalformedPayloads

FindInit ==
    /\ tPayload \in SamplePayloads
    /\ tId \in LookupIds
    /\ tJobs = <<>>
    /\ tJob = <<>>
    /\ tPc = "load"

notFind == <<ashbyVars, raceVars, googleVars, locVars, slugVars, postVars>>

\* load_sample_jobs (12-14 of test_google_parser.py): parse_jobs(data).
TLoad ==
    /\ tPc = "load"
    /\ LET r == parse_jobs(tPayload) IN
         IF r = Raised
         THEN /\ tPc' = "raised"
              /\ UNCHANGED tJobs
         ELSE /\ tJobs' = r.jobs
              /\ tPc' = "find"
    /\ UNCHANGED <<tPayload, tId, tJob, notFind>>

\* Line 31 of the test: job = find_job_by_ats_id(jobs, id).
TFind ==
    /\ tPc = "find"
    /\ tJob' = find_job_by_ats_id(tJobs, tId)
    /\ tPc' = "found"
    /\ UNCHANGED <<tPayload, tId, tJobs, notFind>>

FindNext == TLoad \/ TFind

InitFind ==
    FindInit /\ AshbyIdle /\ companies = {} /\ RaceIdle /\ GoogleIdle /\ LocIdle
    /\ SlugIdle /\ PostIdle

SpecFind == InitFind /\ [][FindNext]_vars

\* The rows of the payload looked at.
SampleRows ==
    IF tPayload.k = "dict"
    THEN (IF tPayload.hasData /\ tPayload.data.k = "list" /\ tPayload.data.items # <<>>
             /\ tPayload.data.items[1].k = "list"
          THEN tPayload.data.items[1].items ELSE <<>>)
    ELSE IF tPayload.k = "list" /\ tPayload.items # <<>> /\ tPayload.items[1].k = "list"
    THEN tPayload.items[1].items
    ELSE <<>>

\* The positions of the rows that give a job of the id looked for.
RowsOfId ==
    SelectSeq([i \in 1..Len(SampleRows) |-> i],
              LAMBDA i : Keyed(SampleRows[i]) /\ RefField(SampleRows[i], 0) = tId)

\* The joined locations of a row.
RefLocation(row) ==
    IF row.k = "list" /\ Len(row.items) > 9 /\ row.items[10].k = "list"
    THEN RefFormat(row.items[10].items)
    ELSE <<>>

\* C21: on the jobs parse_jobs returned, find_job_by_ats_id returns the job
\* of the first row, in row order, whose trimmed id is the id looked for,
\* with the title and the joined locations of that row, and None when no
\* row gives a job of that id.
C21_FindFirstById ==
    tPc = "found" =>
        IF RowsOfId = <<>> THEN tJob = NoJob
        ELSE /\ tJob # NoJob
             /\ tJob.ats_id = tId
             /\ tJob.title = RefField(SampleRows[RowsOfId[1]], 1)
             /\ tJob.location = RefLocation(SampleRows[RowsOfId[1]])

\* Two rows of id "7" with different titles and locations were searched:
\* the job found is the first, with the joined locations of its row.
C21_Witness ==
    /\ tPc = "found"
    /\ tId = <<"7">>
    /\ Len(RowsOfId) = 2
    /\ RefField(SampleRows[RowsOfId[1]], 1) # RefField(SampleRows[RowsOfId[2]], 1)
    /\ tJob # NoJob
    /\ tJob.title = <<"T", "1">>
    /\ tJob.location = NewYorkRemote

(***************************************************************************)
(* post_playwright.py: the posted-jobs ledger, the selection of the new    *)
(* rows of new_ai.csv, the summary post and the two posting functions.     *)
(* A CSV cell is a str (its characters) or None, which csv.DictReader      *)
(* gives for the cells a short row lacks. The timestamp the ledger file    *)
(* and the daily header carry is left out.                                 *)
(***************************************************************************)
PyNone == <<"None">>

\* jobs[:5] (line 116)
TopN == 5
\* len(location) > 30 (line 123)
LocationLimit == 30

\* date.today() in the format of date_added.
Today == <<"d">>

\* The ledger file: absent, unreadable as the expected JSON, or a set of URLs.
LedgerFile(exists, valid, urls) ==
    [exists |-> exists, valid |-> valid, posted_urls |-> urls]

\* load_posted_jobs (36-47): the empty set for a missing file and for a
\* file whose loading raises.
load_posted_jobs(file) ==
    IF ~file.exists THEN {}
    ELSE IF ~file.valid THEN {}
    ELSE file.posted_urls

\* save_posted_jobs (50-60): ok is whether the file could be written; the
\* exception of a failed write is caught.
save_posted_jobs(file, posted_urls, ok) ==
    IF ok THEN LedgerFile(TRUE, TRUE, posted_urls) ELSE file

\* x.strip() of a cell: an AttributeError on None.
CellStrip(x) == IF x = PyNone THEN RAISE ELSE Strip(x)

RECURSIVE ReadRows(_, _, _, _)
\* Lines 80-94: the loop over the rows; an exception ends the reading and
\* the rows appended so far are returned.
ReadRows(rows, posted_urls, date_filter, acc) ==
    IF rows = <<>> THEN acc
    ELSE LET row == Head(rows)
             url == CellStrip(row.url)
             date_added == CellStrip(row.date_added)
         IN  IF url = RAISE \/ date_added = RAISE THEN acc
             ELSE IF url \in posted_urls
             THEN ReadRows(Tail(rows), posted_urls, date_filter, acc)
             ELSE IF date_filter \notin {PyNone, <<>>} /\ date_added # date_filter
             THEN ReadRows(Tail(rows), posted_urls, date_filter, acc)
             ELSE ReadRows(Tail(rows), posted_urls, date_filter, Append(acc, row))

\* get_new_jobs_from_csv (63-96)
get_new_jobs_from_csv(csv, ledger, date_filter) ==
    IF ~csv.exists THEN <<>>
    ELSE ReadRows(csv.rows, load_posted_jobs(ledger), date_filter, <<>>)

RECURSIVE BeforeComma(_)
\* location.split(",")[0]
BeforeComma(location) ==
    IF location = <<>> THEN <<>>
    ELSE IF Head(location) = "," THEN <<>>
    ELSE <<Head(location)>> \o BeforeComma(Tail(location))

\* Lines 123-124
Shorten(location) ==
    IF Len(location) > LocationLimit THEN BeforeComma(location) ELSE location

\* The empty string format_summary_post returns for no jobs.
EmptyPost == [is_daily |-> FALSE, count |-> 0, items |-> <<>>]

\* The text of a post: its header (daily or not, the count) and its
\* numbered entries.
PostText(js, is_daily, n) ==
    [is_daily |-> is_daily,
     count |-> Len(js),
     items |-> [i \in 1..n |->
                  [i |-> i, title |-> js[i].title, company |-> js[i].company,
                   location |-> Shorten(js[i].location), url |-> js[i].url]]]

\* format_summary_post (99-130): the entries are those of jobs[:5];
\* len(None) raises a TypeError.
format_summary_post(js, is_daily) ==
    LET n == IF Len(js) < TopN THEN Len(js) ELSE TopN IN
    IF js = <<>> THEN EmptyPost
    ELSE IF \E i \in 1..n : js[i].location = PyNone THEN Raised
    ELSE PostText(js, is_daily, n)

\* What can happen to a post: Playwright is not installed (333-335); the
\* cookies or the launch raise (501-503); a step on the page raises
\* (489-499); closing the context or the browser raises (485-486, caught
\* at 489); the page left the compose URL (472-473); the page is still on
\* the compose URL with an alert (476-481) or without one (482-483);
\* asyncio.run raises (513-515).
PageOutcomes ==
    { "unavailable", "launch_error", "page_error", "close_error", "redirected",
      "compose_alert", "compose_quiet", "loop_error" }

\* post_to_x_playwright (328-503): True at line 487 on every path that
\* reaches it.
post_to_x_playwright(page) == page \in {"redirected", "compose_alert", "compose_quiet"}

\* post_to_x (506-515)
post_to_x(page) == IF page = "loop_error" THEN FALSE ELSE post_to_x_playwright(page)

(***************************************************************************)
(* Inputs: new_ai.csv and posted_jobs.json.                                *)
(***************************************************************************)
CsvRow(url, date_added, title, company, location) ==
    [url |-> url, date_added |-> date_added, title |-> title,
     company |-> company, location |-> location]

\* A location of more than LocationLimit characters, with a comma.
LongLocation == [i \in 1..(LocationLimit + 1) |-> "A"] \o <<",", " ", "B">>

\* Rows with the url, date_added, title, company and location columns in
\* that order; the last two are short rows.
CsvRowShapes ==
    { CsvRow(<<"u">>, Today, <<"T", "1">>, <<"C">>, <<"L">>),
      CsvRow(<<" ", "u">>, <<"d", " ">>, <<"T", "2">>, <<"C">>, LongLocation),
      CsvRow(<<"v">>, <<"e">>, <<"T", "3">>, <<"C">>, <<"L">>),
      CsvRow(<<>>, Today, <<"T", "4">>, <<"C">>, <<"L">>),
      CsvRow(<<"x">>, Today, <<"T", "5">>, <<"C">>, PyNone),
      CsvRow(<<"w">>, PyNone, PyNone, PyNone, PyNone) }

Digits == <<"1", "2", "3", "4", "5", "6", "7", "8", "9">>

\* One row more than a post lists, each with its own URL.
LongBatch == [i \in 1..(TopN + 1) |-> CsvRow(<<Digits[i]>>, Today, <<"T">>, <<"C">>, <<"L">>)]

CsvFile(exists, rows) == [exists |-> exists, rows |-> rows]

CsvFiles ==
    { CsvFile(FALSE, <<>>) }
    \cup { CsvFile(TRUE, rows) : rows \in SeqsUpTo(CsvRowShapes, MaxCsvRows) }
    \cup { CsvFile(TRUE, LongBatch) }

LedgerFiles ==
    { LedgerFile(FALSE, TRUE, {}),
      LedgerFile(TRUE, FALSE, {}),
      LedgerFile(TRUE, TRUE, {<<"u">>}),
      LedgerFile(TRUE, TRUE, {<<"1">>, <<"z">>}) }

PostModes == {"hourly", "daily"}

PostInit ==
    /\ new_ai \in CsvFiles
    /\ posted_jobs \in LedgerFiles
    /\ pMode \in PostModes
    /\ pPc = "start"
    /\ pRun = 1
    /\ pJobs = <<>>
    /\ post_content = EmptyPost
    /\ pPage = "none"
    /\ pPosted = FALSE
    /\ pBefore = {}
    /\ pSelected = <<>>

notPost == <<ashbyVars, raceVars, googleVars, locVars, slugVars, findVars>>

\* date_filter: today_str in daily_digest_post (527, 531), None in
\* hourly_update_post (558).
DateFilter == IF pMode = "daily" THEN Today ELSE PyNone

\* Lines 531-535 and 558-562: jobs = get_new_jobs_from_csv(...); the
\* function returns when there are none.
PSelect ==
    /\ pPc = "start"
    /\ pJobs' = get_new_jobs_from_csv(new_ai, posted_jobs, DateFilter)
    /\ pBefore' = load_posted_jobs(posted_jobs)
    /\ pPc' = IF pJobs' = <<>> THEN "done" ELSE "format"
    /\ pPage' = "none"
    /\ pPosted' = FALSE
    /\ post_content' = EmptyPost
    /\ UNCHANGED <<new_ai, posted_jobs, pMode, pRun, pSelected, notPost>>

\* Lines 538 and 565: post_content = format_summary_post(jobs, ...); an
\* exception leaves the function.
PFormat ==
    /\ pPc = "format"
    /\ LET c == format_summary_post(pJobs, pMode = "daily") IN
         IF c = Raised
         THEN /\ pPc' = "crashed"
              /\ UNCHANGED post_content
         ELSE /\ post_content' = c
              /\ pPc' = "post"
    /\ UNCHANGED <<new_ai, posted_jobs, pMode, pRun, pJobs, pPage, pPosted,
                   pBefore, pSelected, notPost>>

\* Lines 540 and 567: post_to_x(post_content).
PPost ==
    /\ pPc = "post"
    /\ \E page \in PageOutcomes :
         /\ pPage' = page
         /\ pPosted' = post_to_x(page)
    /\ pPc' = "posted"
    /\ UNCHANGED <<new_ai, posted_jobs, pMode, pRun, pJobs, post_content,
                   pBefore, pSelected, notPost>>

\* The URLs lines 543-546 and 570-573 add: the non-empty trimmed URLs of
\* the jobs.
JobUrls(js) == { Strip(js[i].url) : i \in 1..Len(js) } \ { <<>> }

\* The branch that rewrites the ledger with the URLs of the jobs only.
PMark_Overwrite ==
    /\ pPc = "posted"
    /\ IF pPosted
       THEN /\ \E ok \in BOOLEAN :
                 posted_jobs' = save_posted_jobs(posted_jobs, JobUrls(pJobs), ok)
            /\ pSelected' = pSelected \o pJobs
       ELSE UNCHANGED <<posted_jobs, pSelected>>
    /\ pPc' = "done"
    /\ UNCHANGED <<new_ai, pMode, pRun, pJobs, post_content, pPage, pPosted,
                   pBefore, notPost>>

\* Lines 540-550 and 567-577: when post_to_x returned True the ledger is
\* loaded again, the URLs of the jobs are added and it is saved; otherwise
\* a failure is printed.
PMark ==
    /\ pPc = "posted"
    /\ IF pPosted
       THEN /\ \E ok \in BOOLEAN :
                 posted_jobs' = save_posted_jobs(posted_jobs,
                                    load_posted_jobs(posted_jobs) \cup JobUrls(pJobs), ok)
            /\ pSelected' = pSelected \o pJobs
       ELSE UNCHANGED <<posted_jobs, pSelected>>
    /\ pPc' = "done"
    /\ UNCHANGED <<new_ai, pMode, pRun, pJobs, post_content, pPage, pPosted,
                   pBefore, notPost>>

\* The script is run again (main, 580-620), as the daily or the hourly post.
PNextRun ==
    /\ pPc \in {"done", "crashed"}
    /\ pRun < MaxPostRuns
    /\ pRun' = pRun + 1
    /\ pMode' \in PostModes
    /\ pPc' = "start"
    /\ UNCHANGED <<new_ai, posted_jobs, pJobs, post_content, pPage, pPosted,
                   pBefore, pSelected, notPost>>

PostNext == PSelect \/ PFormat \/ PPost \/ PMark \/ PNextRun

InitPost ==
    PostInit /\ AshbyIdle /\ companies = {} /\ RaceIdle /\ GoogleIdle /\ LocIdle
    /\ SlugIdle /\ FindIdle

SpecPost == InitPost /\ [][PostNext]_vars

(***************************************************************************)
(* Properties of the poster.                                               *)
(***************************************************************************)
\* C22 as stated: post_to_x_playwright returns True when the post was
\* published (the page left the compose URL) and False when it was not
\* (Playwright missing, the launch or a step on the page raised); it does
\* not return True when the page is still on the compose URL with an error
\* alert after the click on the post button. The code returns True there.
C22_TrueOnlyWhenPublished ==
    pPc = "posted" =>
        /\ pPage = "redirected" => pPosted
        /\ pPage \in {"unavailable", "launch_error", "page_error", "loop_error"} => ~pPosted
        /\ pPage = "compose_alert" => ~pPosted

\* The trimmed URL of a CSV row, empty when the row has none.
TrimUrl(row) == IF row.url = PyNone THEN <<>> ELSE Strip(row.url)

\* The row passes the date filter of the run.
OfTheDay(row) ==
    pMode = "daily" => (row.date_added # PyNone /\ Strip(row.date_added) = Today)

\* C23 as stated: get_new_jobs_from_csv returns, in file order, exactly
\* the CSV rows whose URL is not in the posted-jobs ledger (of the day, for
\* the daily post), so a row selected by a run has no non-empty URL that a
\* row of an earlier run that posted had. A short row ends the reading, and
\* the rows after it are not returned.
C23_SelectsUnpostedOnce ==
    /\ pPc # "start" =>
         pJobs = SelectSeq(new_ai.rows,
                           LAMBDA row : TrimUrl(row) \notin pBefore /\ OfTheDay(row))
    /\ pPc \in {"format", "post", "posted"} =>
         \A i \in 1..Len(pJobs) : \A k \in 1..Len(pSelected) :
             TrimUrl(pSelected[k]) # <<>> => TrimUrl(pJobs[i]) # TrimUrl(pSelected[k])

(***************************************************************************)
(* The jobs table and the session of process_ashby_companies.              *)
(***************************************************************************)
\* C24: at every point of every sequence of runs of
\* process_ashby_companies, with failing records and repeated payloads,
\* the jobs table holds at most one row per job id.
C24_OneRowPerJobId ==
    \A r1, r2 \in jobs : r1.id = r2.id => r1 = r2

\* The second run is over: the first run had inserted a record and lost
\* one, and the second run updated a record and lost one.
C24_Witness ==
    /\ run = 2
    /\ pc = "done"
    /\ snapshot.inserted >= 1
    /\ snapshot.failed >= 1
    /\ \E i \in 1..Len(events) : events[i].kind = "job" /\ events[i].outcome = "update"
    /\ \E i \in 1..Len(events) : events[i].kind = "job" /\ events[i].outcome = "failed"
    /\ jobs # {}

\* C25: whenever get_or_create_company is called the session holds no
\* uncommitted job change, every earlier record having been committed or
\* rolled back, so the commit inside the resolver leaves the jobs table as
\* it is.
C25_ResolverCommitsNoJob ==
    /\ [](pc = "file" => pending = <<>>)
    /\ [][pc = "file" => jobs' = jobs]_vars

\* The only record of the first file failed at its commit and was rolled
\* back; the resolver then created and committed the company of the second
\* file, and the jobs table holds no row.
C25_Witness ==
    /\ run = 1
    /\ pc = "load"
    /\ fileIdx = 2
    /\ \E i \in 1..Len(events) :
         /\ events[i].kind = "job"
         /\ events[i].file = 1
         /\ events[i].outcome = "failed"
         /\ events[i].cause = "commit"
    /\ events[Len(events)].kind = "company"
    /\ events[Len(events)].file = 2
    /\ Cardinality(companies) = 2
    /\ pending = <<>>
    /\ jobs = {}

(***************************************************************************)
(* The posted-jobs ledger.                                                 *)
(***************************************************************************)
\* The URLs a ledger file records.
Ledger(file) == IF file.exists /\ file.valid THEN file.posted_urls ELSE {}

\* C26: in hourly_update_post and daily_digest_post the ledger file is
\* written only after post_to_x returned True; when the post failed the
\* file is left as it was, and a write keeps every URL of the old ledger
\* and adds the trimmed non-empty URLs of the selected rows.
C26_LedgerOnlyGrowsAfterPost ==
    [][/\ posted_jobs' # posted_jobs =>
            /\ pPc = "posted"
            /\ pPosted
            /\ Ledger(posted_jobs) \subseteq Ledger(posted_jobs')
            /\ Ledger(posted_jobs') =
                  Ledger(posted_jobs) \cup
                  ({ TrimUrl(pJobs[i]) : i \in 1..Len(pJobs) } \ { <<>> })
       /\ (pPc = "posted" /\ ~pPosted) => posted_jobs' = posted_jobs]_vars

\* A run that posted has ended: the ledger held URLs when it started, and
\* holds them and a new one now.
C26_Witness ==
    /\ pPc = "done"
    /\ pPosted
    /\ pBefore # {}
    /\ pBefore \subseteq Ledger(posted_jobs)
    /\ pBefore # Ledger(posted_jobs)

\* C27 as stated: every URL that hourly_update_post or daily_digest_post
\* adds to the ledger is the URL of a job listed in the content that was
\* passed to post_to_x, for batches of any size. The content lists the
\* first TopN jobs and the ledger takes the URLs of all of them.
C27_LedgerUrlsWerePosted ==
    (pPc = "done" /\ pPosted) =>
        \A u \in Ledger(posted_jobs) \ pBefore :
            \E k \in 1..Len(post_content.items) : Strip(post_content.items[k].url) = u

(***************************************************************************)
(* The slug adapters on a missing or empty companies CSV.                  *)
(***************************************************************************)
\* C28 as stated: in both slug adapters read_existing_companies returns
\* the empty set, without raising, when the companies CSV is missing or
\* has no row at all, and the run then writes the header and the found
\* slugs. The Greenhouse script raises StopIteration on the empty file.
C28_EmptyPriorReadsEmpty ==
    /\ sPc # "crashed"
    /\ (sPc \in {"read", "merged"} /\ (~sFile.exists \/ sFile.rows = <<>>)) =>
          sExisting = {}
    /\ (sPc = "written" /\ sRun = 1 /\ sExisting = {}) =>
          /\ sFile.exists
          /\ Len(sFile.rows) = 1 + Cardinality(sFound)

====
